---------------------------- MODULE Spec2Model ----------------------------
(***************************************************************************)
(* A model of the bsonrs codec: the Value / Document data model, the       *)
(* binary encoder (src/src/encode.rs), the binary decoder                  *)
(* (src/src/decode.rs), the extended-document bridge (src/src/value.rs)    *)
(* and the to-Value serializer (src/src/serde_impl/encode.rs).             *)
(*                                                                         *)
(* Representation.                                                         *)
(*   byte      a number in 0..255                                          *)
(*   String    the sequence of the bytes of its UTF-8 encoding             *)
(*   i32       an integer in -2^31 .. 2^31-1                               *)
(*   i64/u64   the 8 bytes of its two's complement, little-endian          *)
(*             (2^32 and above are not numbers TLC can hold)               *)
(*   Document  the IndexMap as the sequence of its <<key, value>> entries, *)
(*             in iteration order, keys unique                             *)
(*   Array     the sequence of its values                                  *)
(*   Value     a record whose field t names the variant                    *)
(*   DateTime  secs (whole seconds since the epoch) and nanos              *)
(***************************************************************************)
EXTENDS Integers, Sequences, FiniteSets, TLC

VARIABLES
    doc,        \* codec: the Document handed to the encoder
    wire,       \* codec: the bytes the decoder's reader holds
    decoded,    \* codec: what decode_document returned for wire
    step,       \* codec: the last operation that acted
    mark,       \* codec: what the last tampering of wire did
    ticks,      \* run: the steps the call of decode_document has taken
    build,      \* "debug" or "release": whether integer overflow panics or wraps
    val,        \* bridge: the Value under conversion
    ext,        \* bridge: what to_extended_document returned
    back,       \* bridge: what from_extended_document returned
    bstep,      \* bridge: the last operation that acted
    sval,       \* serializer: the typed value handed to to_bson or to the last call
    sres,       \* serializer: what to_bson or the last call returned
    sstep,      \* serializer: the last operation that acted
    dmap,       \* document: the Document the map operations act on
    dprev,      \* document: dmap before the last operation
    dcall,      \* document: the last operation and its arguments
                \* (map serializer: the calls made so far)
    dret        \* document: what the last operation returned
                \* (map serializer: the pending key, self.next_key)

vars == <<doc, wire, decoded, step, mark, ticks, build, val, ext, back, bstep, sval, sres, sstep,
          dmap, dprev, dcall, dret>>

codecVars == <<doc, wire, decoded, step, mark, ticks>>
bridgeVars == <<val, ext, back, bstep>>
serVars == <<sval, sres, sstep>>
docVars == <<dmap, dprev, dcall, dret>>

-----------------------------------------------------------------------------
(* Bytes and fixed-width integers (byteorder's LittleEndian reads and writes) *)

Byte == 0..255

RECURSIVE Concat(_)
\* The concatenation of a sequence of byte sequences.
Concat(ss) == IF ss = <<>> THEN <<>> ELSE Head(ss) \o Concat(Tail(ss))

Take(s, n) == SubSeq(s, 1, n)
Drop(s, n) == SubSeq(s, n + 1, Len(s))

\* write_i32: the 4 little-endian bytes of the two's complement of n.
I32Bytes(n) ==
    << n % 256, (n \div 256) % 256, (n \div 65536) % 256, (n \div 16777216) % 256 >>

\* read_i32: the i32 whose two's complement the 4 bytes are.
I32Of(b) ==
    b[1] + 256 * b[2] + 65536 * b[3]
        + 16777216 * (IF b[4] >= 128 THEN b[4] - 256 ELSE b[4])

SignByte(n) == IF n < 0 THEN 255 ELSE 0

\* i64::from(n): the 8 bytes of the sign extension of the i32 n.
I64FromI32(n) == I32Bytes(n) \o << SignByte(n), SignByte(n), SignByte(n), SignByte(n) >>

\* Whether the i64 b is the sign extension of its low 32 bits.
I64FitsI32(b) ==
    LET s == IF b[4] >= 128 THEN 255 ELSE 0
    IN  b[5] = s /\ b[6] = s /\ b[7] = s /\ b[8] = s

\* Rust's / and % on signed integers truncate towards zero.
TruncDiv(a, b) == IF a >= 0 THEN a \div b ELSE -((-a) \div b)
TruncRem(a, b) == a - b * TruncDiv(a, b)

-----------------------------------------------------------------------------
(* Binary subtypes (crate::spec::BinarySubtype)                             *)

Generic == [kind |-> "Generic"]
UserDefined(x) == [kind |-> "UserDefined", x |-> x]

\* BinarySubtype::from(u8): the six named subtypes, any other byte user-defined.
BinarySubtypeFrom(b) ==
    CASE b = 0 -> Generic
      [] b = 1 -> [kind |-> "Function"]
      [] b = 2 -> [kind |-> "BinaryOld"]
      [] b = 3 -> [kind |-> "UuidOld"]
      [] b = 4 -> [kind |-> "Uuid"]
      [] b = 5 -> [kind |-> "Md5"]
      [] OTHER -> UserDefined(b)

\* u8::from(BinarySubtype)
BinarySubtypeTag(subtype) ==
    CASE subtype.kind = "Generic" -> 0
      [] subtype.kind = "Function" -> 1
      [] subtype.kind = "BinaryOld" -> 2
      [] subtype.kind = "UuidOld" -> 3
      [] subtype.kind = "Uuid" -> 4
      [] subtype.kind = "Md5" -> 5
      [] subtype.kind = "UserDefined" -> subtype.x

-----------------------------------------------------------------------------
(* Element types (crate::spec::ElementType): the tag byte of each variant   *)

\* ElementType as u8, for the variants a Value has.
TagOf(t) ==
    CASE t = "Double" -> 1
      [] t = "String" -> 2
      [] t = "Document" -> 3
      [] t = "Array" -> 4
      [] t = "Binary" -> 5
      [] t = "ObjectId" -> 7
      [] t = "Boolean" -> 8
      [] t = "UTCDatetime" -> 9
      [] t = "Null" -> 10
      [] t = "RegExp" -> 11
      [] t = "JavaScriptCode" -> 13
      [] t = "Symbol" -> 14
      [] t = "JavaScriptCodeWithScope" -> 15
      [] t = "Int32" -> 16
      [] t = "TimeStamp" -> 17
      [] t = "Int64" -> 18

\* The tags ElementType::from maps to Undefiend, DBPointer, MaxKey, MinKey.
ReservedTags == {6, 12, 127, 255}

\* ElementType::from(tag): the variant's name, "Reserved" for the four tags
\* that have no Value, "None" for a byte that is no element type.
ElementTypeFrom(tag) ==
    CASE tag = 1 -> "Double"
      [] tag = 2 -> "String"
      [] tag = 3 -> "Document"
      [] tag = 4 -> "Array"
      [] tag = 5 -> "Binary"
      [] tag = 7 -> "ObjectId"
      [] tag = 8 -> "Boolean"
      [] tag = 9 -> "UTCDatetime"
      [] tag = 10 -> "Null"
      [] tag = 11 -> "RegExp"
      [] tag = 13 -> "JavaScriptCode"
      [] tag = 14 -> "Symbol"
      [] tag = 15 -> "JavaScriptCodeWithScope"
      [] tag = 16 -> "Int32"
      [] tag = 17 -> "TimeStamp"
      [] tag = 18 -> "Int64"
      [] tag \in ReservedTags -> "Reserved"
      [] OTHER -> "None"

\* Value::element_type(), as the tag byte encode_bson writes.
element_type(v) == TagOf(v.t)

-----------------------------------------------------------------------------
(* Value constructors                                                       *)

Double(f) == [t |-> "Double", f |-> f]
String(s) == [t |-> "String", s |-> s]
Array(a) == [t |-> "Array", a |-> a]
Document(d) == [t |-> "Document", d |-> d]
Boolean(b) == [t |-> "Boolean", b |-> b]
Null == [t |-> "Null"]
RegExp(pat, opt) == [t |-> "RegExp", pat |-> pat, opt |-> opt]
JavaScriptCode(code) == [t |-> "JavaScriptCode", code |-> code]
JavaScriptCodeWithScope(code, scope) ==
    [t |-> "JavaScriptCodeWithScope", code |-> code, scope |-> scope]
Int32(i) == [t |-> "Int32", i32 |-> i]
Int64(b) == [t |-> "Int64", i64 |-> b]
TimeStamp(b) == [t |-> "TimeStamp", ts |-> b]
Binary(subtype, data) == [t |-> "Binary", subtype |-> subtype, data |-> data]
ObjectId(bytes) == [t |-> "ObjectId", oid |-> bytes]
UTCDatetime(secs, nanos) == [t |-> "UTCDatetime", secs |-> secs, nanos |-> nanos]
Symbol(s) == [t |-> "Symbol", sym |-> s]

-----------------------------------------------------------------------------
(* The binary encoder (src/src/encode.rs)                                   *)

\* The last decimal digit of n alone.
LastDigit(n) == << 48 + (n % 10) >>

RECURSIVE ToDecimal(_)
\* usize::to_string: the ASCII decimal digits of n.
ToDecimal(n) == IF n < 10 THEN << 48 + n >> ELSE ToDecimal(n \div 10) \o << 48 + (n % 10) >>

\* write_string: the length (content bytes + 1), the content, a 0x00.
write_string(s) == I32Bytes(Len(s) + 1) \o s \o << 0 >>

\* write_cstring: the bytes as they are, then a 0x00.
write_cstring(s) == s \o << 0 >>

\* The millisecond count the encoder writes for a DateTime:
\* v.timestamp() * 1000 + i64::from(v.nanosecond() / 1_000_000).
DatetimeMillis(v) == v.secs * 1000 + (v.nanos \div 1000000)

\* A length that leaves the 4 bytes of the prefix out.
PatchLengthOfBody(buf) == I32Bytes(Len(buf) - 4) \o Drop(buf, 4)

\* The last step of encode_document and encode_array: the total length of
\* buf, as 4 little-endian bytes, written over the 4 placeholder bytes.
PatchLength(buf) == I32Bytes(Len(buf)) \o Drop(buf, 4)

RECURSIVE encode_bson(_, _), encode_document(_), encode_array(_), EncodeEntries(_), EncodeElements(_, _)

\* encode_document's loop: encode_bson of every entry, in iteration order.
EncodeEntries(entries) ==
    IF entries = <<>> THEN <<>>
    ELSE encode_bson(Head(entries)[1], Head(entries)[2]) \o EncodeEntries(Tail(entries))

\* encode_array's loop: encode_bson of every element under the decimal
\* string of its position; from is the position of the first of arr.
EncodeElements(arr, from) ==
    IF arr = <<>> THEN <<>>
    ELSE encode_bson(ToDecimal(from), Head(arr)) \o EncodeElements(Tail(arr), from + 1)

\* encode_document: 4 placeholder bytes, the elements, the terminating 0x00,
\* and then the length patched into the placeholder.
encode_document(entries) ==
    PatchLength(<< 0, 0, 0, 0 >> \o EncodeEntries(entries) \o << 0 >>)

\* encode_array: the same, the keys synthesized from the positions.
encode_array(arr) ==
    PatchLength(<< 0, 0, 0, 0 >> \o EncodeElements(arr, 0) \o << 0 >>)

\* encode_bson: the tag, the key as a cstring, the payload of the variant.
encode_bson(key, v) ==
    << element_type(v) >> \o write_cstring(key) \o
    CASE v.t = "Double" -> v.f
      [] v.t = "String" -> write_string(v.s)
      [] v.t = "Array" -> encode_array(v.a)
      [] v.t = "Document" -> encode_document(v.d)
      [] v.t = "Boolean" -> << IF v.b THEN 1 ELSE 0 >>
      [] v.t = "RegExp" -> write_cstring(v.pat) \o write_cstring(v.opt)
      [] v.t = "JavaScriptCode" -> write_string(v.code)
      [] v.t = "ObjectId" -> v.oid
      [] v.t = "JavaScriptCodeWithScope" ->
            LET buf == write_string(v.code) \o encode_document(v.scope)
            IN  I32Bytes(Len(buf) + 4) \o buf
      [] v.t = "Int32" -> I32Bytes(v.i32)
      [] v.t = "Int64" -> v.i64
      [] v.t = "TimeStamp" -> v.ts
      [] v.t = "Binary" -> I32Bytes(Len(v.data)) \o << BinarySubtypeTag(v.subtype) >> \o v.data
      [] v.t = "UTCDatetime" -> I64FromI32(DatetimeMillis(v))
      [] v.t = "Null" -> <<>>
      [] v.t = "Symbol" -> write_string(v.sym)

\* A to_vec that leaves the 4 placeholder bytes as they were written.
to_vec_unpatched(d) == I32Bytes(0) \o EncodeEntries(d) \o << 0 >>

\* Document::to_vec: write_i32 of 0, the elements, the terminating 0x00, and
\* then (buf.len() as i32).to_le_bytes() copied over the first 4 bytes.
Document_to_vec(d) ==
    LET buf == I32Bytes(0) \o EncodeEntries(d) \o << 0 >>
        len_bytes == I32Bytes(Len(buf))
    IN  len_bytes \o Drop(buf, 4)

\* Document::encode: encode_document on the writer, which holds w.
Document_encode(w, d) == w \o encode_document(d)

-----------------------------------------------------------------------------
(* UTF-8 (std's String::from_utf8 and String::from_utf8_lossy)              *)

\* The byte of v at 1-based index i, 0 past the end (lossy's safe_get).
SafeGet(v, i) == IF i <= Len(v) THEN v[i] ELSE 0

IsCont(c) == c >= 128 /\ c <= 191

\* The second byte a 3- or 4-byte sequence may have after lead byte c.
SecondOk(c, d) ==
    CASE c = 224 -> d >= 160 /\ d <= 191
      [] c = 237 -> d >= 128 /\ d <= 159
      [] c = 240 -> d >= 144 /\ d <= 191
      [] c = 244 -> d >= 128 /\ d <= 143
      [] OTHER -> IsCont(d)

\* utf8_char_width: the length the lead byte c announces, 0 for no lead byte.
Utf8CharWidth(c) ==
    CASE c < 128 -> 1
      [] c >= 194 /\ c <= 223 -> 2
      [] c >= 224 /\ c <= 239 -> 3
      [] c >= 240 /\ c <= 244 -> 4
      [] OTHER -> 0

\* One step of the validation at index i: whether a well-formed sequence
\* starts there, and the bytes it (or the ill-formed part) takes.
Utf8Step(v, i) ==
    LET c == v[i]
        w == Utf8CharWidth(c)
    IN  CASE w = 1 -> [ok |-> TRUE, n |-> 1]
          [] w = 2 -> IF IsCont(SafeGet(v, i + 1)) THEN [ok |-> TRUE, n |-> 2]
                      ELSE [ok |-> FALSE, n |-> 1]
          [] w = 3 -> IF ~SecondOk(c, SafeGet(v, i + 1)) THEN [ok |-> FALSE, n |-> 1]
                      ELSE IF ~IsCont(SafeGet(v, i + 2)) THEN [ok |-> FALSE, n |-> 2]
                      ELSE [ok |-> TRUE, n |-> 3]
          [] w = 4 -> IF ~SecondOk(c, SafeGet(v, i + 1)) THEN [ok |-> FALSE, n |-> 1]
                      ELSE IF ~IsCont(SafeGet(v, i + 2)) THEN [ok |-> FALSE, n |-> 2]
                      ELSE IF ~IsCont(SafeGet(v, i + 3)) THEN [ok |-> FALSE, n |-> 3]
                      ELSE [ok |-> TRUE, n |-> 4]
          [] OTHER -> [ok |-> FALSE, n |-> 1]

RECURSIVE Utf8ValidFrom(_, _), LossyFrom(_, _)

Utf8ValidFrom(v, i) ==
    IF i > Len(v) THEN TRUE
    ELSE LET st == Utf8Step(v, i) IN st.ok /\ Utf8ValidFrom(v, i + st.n)

\* String::from_utf8(v).is_ok()
Utf8Valid(v) == Utf8ValidFrom(v, 1)

LossyFrom(v, i) ==
    IF i > Len(v) THEN <<>>
    ELSE LET st == Utf8Step(v, i)
         IN  (IF st.ok THEN SubSeq(v, i, i + st.n - 1) ELSE << 239, 191, 189 >>)
                \o LossyFrom(v, i + st.n)

\* String::from_utf8_lossy(v): every ill-formed part replaced by U+FFFD.
from_utf8_lossy(v) == LossyFrom(v, 1)

-----------------------------------------------------------------------------
(* Document (src/src/doc.rs): the map operations the codec uses             *)

\* The position of key in d, 0 when absent (IndexMap::get_full).
IndexOf(d, key) ==
    IF \E i \in 1..Len(d) : d[i][1] = key
    THEN CHOOSE i \in 1..Len(d) : d[i][1] = key
    ELSE 0

RECURSIVE KeyLess(_, _)
\* The order of Strings (Ord for String, the order of a BTreeMap's keys):
\* byte by byte.
KeyLess(a, b) ==
    IF b = <<>> THEN FALSE
    ELSE IF a = <<>> THEN TRUE
    ELSE IF Head(a) # Head(b) THEN Head(a) < Head(b)
    ELSE KeyLess(Tail(a), Tail(b))

\* An insertion that appends, whether the key is present or not.
insert_appending(d, key, v) == Append(d, << key, v >>)

\* An insertion that takes a present key out and appends it anew.
insert_at_end(d, key, v) ==
    Append(SelectSeq(d, LAMBDA e : e[1] # key), << key, v >>)

\* Document::insert: the value of a present key is replaced where it is,
\* an absent key is appended.
insert(d, key, v) ==
    LET i == IndexOf(d, key)
    IN  IF i = 0 THEN Append(d, << key, v >>)
        ELSE [d EXCEPT ![i] = << key, v >>]

-----------------------------------------------------------------------------
(* The binary decoder (src/src/decode.rs)                                   *)
(* A reader is the byte sequence b and pos, the number of bytes consumed.   *)
(* A result is Ok (the value and the reader's new position), Err (the       *)
(* DecodeError) or Panic.                                                   *)

MAX_BSON_SIZE == 16 * 1024 * 1024

Ok(v, pos) == [st |-> "Ok", v |-> v, pos |-> pos]
Err(e, pos) == [st |-> "Err", err |-> e, pos |-> pos]
Panic(pos) == [st |-> "Panic", pos |-> pos]
\* A millisecond count outside the 32-bit window the model computes in.
Unmodelled(pos) == [st |-> "Unmodelled", pos |-> pos]

IoError == [kind |-> "IoError"]
FromUtf8Error == [kind |-> "FromUtf8Error"]
UnrecognizedElementType(tag) == [kind |-> "UnrecognizedElementType", tag |-> tag]
InvalidArrayKey(idx, key) == [kind |-> "InvalidArrayKey", idx |-> idx, key |-> key]
\* The length is carried as a usize: the 8 bytes of the sign extension.
InvalidLength(len) == [kind |-> "InvalidLength", len |-> len]
InvalidTimestamp(time) == [kind |-> "InvalidTimestamp", time |-> time]

\* A reader that yields 0x00 once the input has ended.
read_u8_padded(b, pos) ==
    IF pos + 1 <= Len(b) THEN Ok(b[pos + 1], pos + 1) ELSE Ok(0, pos)

\* ReadBytesExt::read_u8
read_u8(b, pos) ==
    IF pos + 1 <= Len(b) THEN Ok(b[pos + 1], pos + 1) ELSE Err(IoError, pos)

\* read_exact of n bytes: all of them, or the I/O error of a short read.
read_exact(b, pos, n) ==
    IF pos + n <= Len(b) THEN Ok(SubSeq(b, pos + 1, pos + n), pos + n) ELSE Err(IoError, pos)

\* read_i32: 4 bytes, little-endian, signed.
read_i32(b, pos) ==
    LET r == read_exact(b, pos, 4)
    IN  IF r.st = "Ok" THEN Ok(I32Of(r.v), r.pos) ELSE r

\* read_i64 and read_u64: 8 bytes, little-endian.
read_i64(b, pos) == read_exact(b, pos, 8)

\* reader.take(n).read_to_end(&mut buf): the next n bytes, or as many as
\* are left; a short read is no error.
take_read_to_end(b, pos, n) ==
    LET m == IF Len(b) - pos < n THEN Len(b) - pos ELSE n
    IN  Ok(SubSeq(b, pos + 1, pos + m), pos + m)

\* read_string without the upper bound on the length.
read_string_unbounded(b, pos) ==
    LET len == read_i32(b, pos)
    IN  IF len.st # "Ok" THEN len
        ELSE IF len.v < 1 THEN Err(InvalidLength(I64FromI32(len.v)), len.pos)
        ELSE LET buf == take_read_to_end(b, len.pos, len.v - 1)
                 s == from_utf8_lossy(buf.v)
                 last == read_u8(b, buf.pos)
             IN  IF last.st # "Ok" THEN last ELSE Ok(s, last.pos)

\* read_string: the length, checked against 1..MAX_BSON_SIZE before any
\* content is read; length - 1 bytes of content, decoded lossily; one more
\* byte, the trailing 0x00, read and not looked at.
read_string(b, pos) ==
    LET len == read_i32(b, pos)
    IN  IF len.st # "Ok" THEN len
        ELSE IF len.v < 1 \/ len.v > MAX_BSON_SIZE THEN Err(InvalidLength(I64FromI32(len.v)), len.pos)
        ELSE LET buf == take_read_to_end(b, len.pos, len.v - 1)
                 s == from_utf8_lossy(buf.v)
                 last == read_u8(b, buf.pos)
             IN  IF last.st # "Ok" THEN last ELSE Ok(s, last.pos)

RECURSIVE FindNul(_, _)
\* read_cstring's loop: the position of the first 0x00 after pos, 0 when the
\* input ends before one is read.
FindNul(b, pos) ==
    IF pos + 1 > Len(b) THEN 0
    ELSE IF b[pos + 1] = 0 THEN pos + 1
    ELSE FindNul(b, pos + 1)

\* A read_cstring that decodes lossily, as read_string does.
read_cstring_lossy(b, pos) ==
    LET z == FindNul(b, pos)
    IN  IF z = 0 THEN Err(IoError, Len(b))
        ELSE Ok(from_utf8_lossy(SubSeq(b, pos + 1, z - 1)), z)

\* read_cstring: the bytes up to the first 0x00, which must be valid UTF-8.
read_cstring(b, pos) ==
    LET z == FindNul(b, pos)
    IN  IF z = 0 THEN Err(IoError, Len(b))
        ELSE LET v == SubSeq(b, pos + 1, z - 1)
             IN  IF Utf8Valid(v) THEN Ok(v, z) ELSE Err(FromUtf8Error, z)

\* Whether every byte of s is an ASCII digit.
AllDigits(s) == \A i \in 1..Len(s) : s[i] >= 48 /\ s[i] <= 57

RECURSIVE StripZeros(_), DecimalValue(_)
StripZeros(s) == IF s # <<>> /\ Head(s) = 48 THEN StripZeros(Tail(s)) ELSE s
DecimalValue(s) == IF s = <<>> THEN 0 ELSE 10 * DecimalValue(Take(s, Len(s) - 1)) + (s[Len(s)] - 48)

\* key.parse::<usize>(): an optional '+', then one or more decimal digits
\* (leading zeros allowed). ok is whether the parse succeeds, v the number;
\* a number of more than 9 significant digits (which may overflow usize, and
\* is the length of no array here) is given as -1.
parse_usize(key) ==
    LET digits == IF key # <<>> /\ Head(key) = 43 THEN Tail(key) ELSE key
        sig == StripZeros(digits)
    IN  IF digits = <<>> \/ ~AllDigits(digits) THEN [ok |-> FALSE, v |-> -1]
        ELSE IF Len(sig) > 9 THEN [ok |-> TRUE, v |-> -1]
        ELSE [ok |-> TRUE, v |-> DecimalValue(sig)]

\* Utc.timestamp_opt(secs, nsecs): the instant, or None when nsecs is no
\* nanosecond field (chrono 0.4 admits 0 .. 2_000_000_000 - 1, the second
\* thousand million standing for a leap second).
timestamp_opt(secs, nsecs) ==
    IF nsecs >= 0 /\ nsecs < 2000000000
    THEN [single |-> TRUE, secs |-> secs, nanos |-> nsecs]
    ELSE [single |-> FALSE]

\* The UTCDatetime arm of decode_bson, from the millisecond count read.
DecodeDatetime(time, pos) ==
    LET temp_msec == TruncRem(time, 1000)
        msec == IF temp_msec < 0 THEN 1000 - temp_msec ELSE temp_msec
        t == timestamp_opt(TruncDiv(time, 1000), msec * 1000000)
    IN  IF t.single THEN Ok(UTCDatetime(t.secs, t.nanos), pos)
        ELSE Err(InvalidTimestamp(time), pos)

\* An arm that takes the element for a Null and goes on.
SkipElement(tag, pos) == Ok(Null, pos)

\* The last arm of decode_bson: a reserved tag, or a byte that is no element
\* type, is an error carrying the tag; nothing of the payload is read.
UnrecognizedArm(tag, pos) == Err(UnrecognizedElementType(tag), pos)

RECURSIVE decode_bson(_, _, _), decode_document(_, _), decode_array(_, _), DocumentLoop(_, _, _), ArrayLoop(_, _, _)

\* The loop of decode_document: a tag; 0x00 ends the document; otherwise the
\* key, the value, and the entry inserted.
DocumentLoop(b, pos, d) ==
    LET tag == read_u8(b, pos)
    IN  IF tag.st # "Ok" THEN tag
        ELSE IF tag.v = 0 THEN Ok(d, tag.pos)
        ELSE LET key == read_cstring(b, tag.pos)
             IN  IF key.st # "Ok" THEN key
                 ELSE LET v == decode_bson(b, key.pos, tag.v)
                      IN  IF v.st # "Ok" THEN v
                          ELSE DocumentLoop(b, v.pos, insert(d, key.v, v.v))

\* A decode_document that reads no further than the declared length.
decode_document_bounded(b, pos) ==
    LET len == read_i32(b, pos)
    IN  IF len.st # "Ok" THEN len
        ELSE IF len.v < 5 THEN Err(InvalidLength(I64FromI32(len.v)), len.pos)
        ELSE LET end == IF pos + len.v < Len(b) THEN pos + len.v ELSE Len(b)
             IN  DocumentLoop(Take(b, end), len.pos, <<>>)

\* decode_document: the length is read and disregarded.
decode_document(b, pos) ==
    LET len == read_i32(b, pos)
    IN  IF len.st # "Ok" THEN len ELSE DocumentLoop(b, len.pos, <<>>)

\* The loop of decode_array: as for a document, and the key must parse to
\* the number of elements read so far.
ArrayLoop(b, pos, arr) ==
    LET tag == read_u8(b, pos)
    IN  IF tag.st # "Ok" THEN tag
        ELSE IF tag.v = 0 THEN Ok(arr, tag.pos)
        ELSE LET key == read_cstring(b, tag.pos)
             IN  IF key.st # "Ok" THEN key
                 ELSE LET idx == parse_usize(key.v)
                      IN  IF ~idx.ok \/ idx.v # Len(arr)
                          THEN Err(InvalidArrayKey(Len(arr), key.v), key.pos)
                          ELSE LET v == decode_bson(b, key.pos, tag.v)
                               IN  IF v.st # "Ok" THEN v
                                   ELSE ArrayLoop(b, v.pos, Append(arr, v.v))

\* decode_array: the length is read and disregarded.
decode_array(b, pos) ==
    LET len == read_i32(b, pos)
    IN  IF len.st # "Ok" THEN len ELSE ArrayLoop(b, len.pos, <<>>)

\* The Binary arm: Vec::with_capacity(len as usize) panics on a negative
\* len (capacity overflow); the payload is as many of len bytes as are left.
DecodeBinary(b, pos) ==
    LET len == read_i32(b, pos)
    IN  IF len.st # "Ok" THEN len
        ELSE LET subtype == read_u8(b, len.pos)
             IN  IF subtype.st # "Ok" THEN subtype
                 ELSE IF len.v < 0 THEN Panic(subtype.pos)
                 ELSE LET data == take_read_to_end(b, subtype.pos, len.v)
                      IN  Ok(Binary(BinarySubtypeFrom(subtype.v), data.v), data.pos)

\* The JavaScriptCodeWithScope arm: the length is read and disregarded.
DecodeCodeWithScope(b, pos) ==
    LET len == read_i32(b, pos)
    IN  IF len.st # "Ok" THEN len
        ELSE LET code == read_string(b, len.pos)
             IN  IF code.st # "Ok" THEN code
                 ELSE LET scope == decode_document(b, code.pos)
                      IN  IF scope.st # "Ok" THEN scope
                          ELSE Ok(JavaScriptCodeWithScope(code.v, scope.v), scope.pos)

\* decode_bson: the payload of the element type the tag names.
decode_bson(b, pos, tag) ==
    LET ty == ElementTypeFrom(tag)
    IN  CASE ty = "Double" ->
                LET r == read_exact(b, pos, 8)
                IN  IF r.st # "Ok" THEN r ELSE Ok(Double(r.v), r.pos)
          [] ty = "String" ->
                LET r == read_string(b, pos)
                IN  IF r.st # "Ok" THEN r ELSE Ok(String(r.v), r.pos)
          [] ty = "Document" ->
                LET r == decode_document(b, pos)
                IN  IF r.st # "Ok" THEN r ELSE Ok(Document(r.v), r.pos)
          [] ty = "Array" ->
                LET r == decode_array(b, pos)
                IN  IF r.st # "Ok" THEN r ELSE Ok(Array(r.v), r.pos)
          [] ty = "Binary" -> DecodeBinary(b, pos)
          [] ty = "ObjectId" ->
                LET r == read_exact(b, pos, 12)
                IN  IF r.st # "Ok" THEN r ELSE Ok(ObjectId(r.v), r.pos)
          [] ty = "Boolean" ->
                LET r == read_u8(b, pos)
                IN  IF r.st # "Ok" THEN r ELSE Ok(Boolean(r.v # 0), r.pos)
          [] ty = "Null" -> Ok(Null, pos)
          [] ty = "RegExp" ->
                LET pat == read_cstring(b, pos)
                IN  IF pat.st # "Ok" THEN pat
                    ELSE LET opt == read_cstring(b, pat.pos)
                         IN  IF opt.st # "Ok" THEN opt
                             ELSE Ok(RegExp(pat.v, opt.v), opt.pos)
          [] ty = "JavaScriptCode" ->
                LET r == read_string(b, pos)
                IN  IF r.st # "Ok" THEN r ELSE Ok(JavaScriptCode(r.v), r.pos)
          [] ty = "JavaScriptCodeWithScope" -> DecodeCodeWithScope(b, pos)
          [] ty = "Int32" ->
                LET r == read_i32(b, pos)
                IN  IF r.st # "Ok" THEN r ELSE Ok(Int32(r.v), r.pos)
          [] ty = "Int64" ->
                LET r == read_i64(b, pos)
                IN  IF r.st # "Ok" THEN r ELSE Ok(Int64(r.v), r.pos)
          [] ty = "TimeStamp" ->
                LET r == read_i64(b, pos)
                IN  IF r.st # "Ok" THEN r ELSE Ok(TimeStamp(r.v), r.pos)
          [] ty = "UTCDatetime" ->
                LET r == read_i64(b, pos)
                IN  IF r.st # "Ok" THEN r
                    ELSE IF ~I64FitsI32(r.v) THEN Unmodelled(r.pos)
                    ELSE DecodeDatetime(I32Of(Take(r.v, 4)), r.pos)
          [] ty = "Symbol" ->
                LET r == read_string(b, pos)
                IN  IF r.st # "Ok" THEN r ELSE Ok(Symbol(r.v), r.pos)
          [] OTHER -> UnrecognizedArm(tag, pos)

-----------------------------------------------------------------------------
(* The inputs of the codec                                                  *)

K_a == << 97 >>
K_b == << 98 >>
K_d == << 100 >>
\* A key with an embedded 0x00: "c\0d".
K_nul == << 99, 0, 100 >>
S_hi == << 104, 105 >>

\* 1969-12-31T23:59:59.999Z, one millisecond before the epoch.
BeforeEpoch == UTCDatetime(-1, 999000000)

Scalars ==
    { Double(<< 0, 0, 0, 0, 0, 0, 240, 63 >>),
      String(<<>>), String(S_hi), String(<< 104, 0, 195, 169 >>),
      Boolean(TRUE), Boolean(FALSE), Null,
      RegExp(K_a, <<>>), RegExp(S_hi, << 105 >>),
      JavaScriptCode(S_hi),
      Int32(-1), Int32(7),
      Int64(<< 1, 0, 0, 0, 0, 0, 0, 128 >>),
      TimeStamp(<< 0, 0, 0, 128, 1, 0, 0, 0 >>),
      Binary(Generic, << 1, 2, 3, 4 >>), Binary(UserDefined(128), <<>>),
      ObjectId(<< 1, 2, 3, 4, 5, 6, 7, 8, 9, 10, 11, 12 >>),
      UTCDatetime(1, 2000000), UTCDatetime(0, 0), BeforeEpoch,
      Symbol(K_a) }

Composites ==
    { Array(<<>>), Array(<< Int32(7), String(S_hi), Null >>),
      Array([n \in 1..11 |-> IF n = 11 THEN Int32(7) ELSE Null]),
      Document(<<>>), Document(<< << K_b, Null >>, << K_a, Boolean(TRUE) >> >>),
      Document(<< << K_a, Array(<< Document(<< << K_b, Symbol(K_a) >> >>) >>) >> >>),
      JavaScriptCodeWithScope(S_hi, << << K_a, Int32(7) >> >>),
      JavaScriptCodeWithScope(<<>>, <<>>) }

Samples == Scalars \cup Composites

\* The values of the entries after the first.
Fillers == { Int32(7), String(S_hi), Array(<< Null >>) }

\* The keys of the first entry, and of the entries after it, by position.
FirstKeys == { K_a, K_nul }
RestKeys == << K_b, K_d, << 101 >>, << 102 >> >>

\* The most entries a document under test has.
MaxEntries == 2

RECURSIVE FillerSeqs(_, _)
\* The sequences of n entries keyed RestKeys[from], RestKeys[from + 1], ...
FillerSeqs(n, from) ==
    IF n = 0 THEN { <<>> }
    ELSE { << << RestKeys[from], v >> >> \o rest :
              v \in Fillers, rest \in FillerSeqs(n - 1, from + 1) }

\* The documents under test: a first entry of any sample value, then fillers.
GeneralDocs ==
    { <<>> } \cup
    { << << k, v >> >> \o rest :
        k \in FirstKeys, v \in Samples,
        rest \in UNION { FillerSeqs(n, 1) : n \in 0..(MaxEntries - 1) } }

\* Keys an array element may meet on the wire: "0", "1", "2", "01", "+1",
\* "x" and the empty key.
ArrayKeys == { << 48 >>, << 49 >>, << 50 >>, << 48, 49 >>, << 43, 49 >>, << 120 >>, <<>> }

RECURSIVE KeyedSeqs(_)
\* The sequences of n entries with distinct keys of ArrayKeys.
KeyedSeqs(n) ==
    IF n = 0 THEN { <<>> }
    ELSE UNION { { Append(d, << k, Int32(7) >>) :
                      k \in ArrayKeys \ { d[i][1] : i \in 1..Len(d) } } :
                  d \in KeyedSeqs(n - 1) }

ArrayKeyDocs == UNION { KeyedSeqs(n) : n \in 1..MaxEntries }

Docs == GeneralDocs \cup ArrayKeyDocs

-----------------------------------------------------------------------------
(* Where the fields of an encoding lie                                      *)

\* An array as the entries encode_array writes for it.
ArrayEntries(a) == [i \in 1..Len(a) |-> << ToDecimal(i - 1), a[i] >>]

RECURSIVE FieldsOfEntries(_, _), FieldsOfValue(_, _)
\* The bytes at..at+n-1, each a field of the given kind.
BytesAt(kind, at, n) == { [kind |-> kind, at |-> at + j] : j \in 0..(n - 1) }

\* The fields of the elements written for entries after base bytes: the
\* 1-based position of every tag byte ("tag"), of the first byte of every
\* string length ("strlen") and of every Binary length ("binlen"), of the
\* first byte of the length prefix of every
\* document, array and code with scope ("prefix"), of every byte of a
\* cstring ("cstr": keys, patterns, options) and of every content byte of a
\* length-prefixed string ("content"), at every depth.
FieldsOfEntries(entries, base) ==
    IF entries = <<>> THEN {}
    ELSE LET e == Head(entries)
         IN  { [kind |-> "tag", at |-> base + 1] }
                \cup BytesAt("cstr", base + 2, Len(e[1]))
                \cup FieldsOfValue(e[2], base + 1 + Len(e[1]) + 1)
                \cup FieldsOfEntries(Tail(entries), base + Len(encode_bson(e[1], e[2])))

\* The fields of the payload of v, written after base bytes.
FieldsOfValue(v, base) ==
    CASE v.t = "String" ->
            { [kind |-> "strlen", at |-> base + 1] } \cup BytesAt("content", base + 5, Len(v.s))
      [] v.t = "JavaScriptCode" ->
            { [kind |-> "strlen", at |-> base + 1] } \cup BytesAt("content", base + 5, Len(v.code))
      [] v.t = "Symbol" ->
            { [kind |-> "strlen", at |-> base + 1] } \cup BytesAt("content", base + 5, Len(v.sym))
      [] v.t = "Binary" -> { [kind |-> "binlen", at |-> base + 1] }
      [] v.t = "RegExp" ->
            BytesAt("cstr", base + 1, Len(v.pat))
                \cup BytesAt("cstr", base + Len(v.pat) + 2, Len(v.opt))
      [] v.t = "Document" ->
            { [kind |-> "prefix", at |-> base + 1] } \cup FieldsOfEntries(v.d, base + 4)
      [] v.t = "Array" ->
            { [kind |-> "prefix", at |-> base + 1] }
                \cup FieldsOfEntries(ArrayEntries(v.a), base + 4)
      [] v.t = "JavaScriptCodeWithScope" ->
            { [kind |-> "prefix", at |-> base + 1], [kind |-> "strlen", at |-> base + 5],
              [kind |-> "prefix", at |-> base + 4 + Len(write_string(v.code)) + 1] }
                \cup BytesAt("content", base + 9, Len(v.code))
                \cup FieldsOfEntries(v.scope, base + 4 + Len(write_string(v.code)) + 4)
      [] OTHER -> {}

\* The fields of encode_document(d).
Fields(d) == { [kind |-> "prefix", at |-> 1] } \cup FieldsOfEntries(d, 4)

RECURSIVE NulFree(_), EntriesNulFree(_)
\* Whether every cstring written for v (keys, pattern, options) is free of
\* 0x00, as the wire format's cstring is.
NulFree(v) ==
    CASE v.t = "RegExp" -> (\A i \in 1..Len(v.pat) : v.pat[i] # 0)
                            /\ (\A i \in 1..Len(v.opt) : v.opt[i] # 0)
      [] v.t = "Document" -> EntriesNulFree(v.d)
      [] v.t = "Array" -> \A i \in 1..Len(v.a) : NulFree(v.a[i])
      [] v.t = "JavaScriptCodeWithScope" -> EntriesNulFree(v.scope)
      [] OTHER -> TRUE

EntriesNulFree(d) ==
    \A i \in 1..Len(d) : (\A j \in 1..Len(d[i][1]) : d[i][1][j] # 0) /\ NulFree(d[i][2])

-----------------------------------------------------------------------------
(* The codec as a state machine: a document is encoded; the bytes are       *)
(* handed to the decoder as they are, cut short, or with a field changed.   *)

None == [st |-> "None"]
NoMark == [op |-> "None"]

\* Tag bytes that name no Value: the four reserved ones, and two that are
\* no element type.
BadTags == ReservedTags \cup { 20, 200 }

\* Declared string lengths: out of bounds (0, negative, above the maximum)
\* and the two bounds themselves.
Lengths == { 0, -1, -2147483647 - 1, 2000000000, MAX_BSON_SIZE + 1, 1, MAX_BSON_SIZE }

InitCodec ==
    /\ doc \in Docs
    /\ wire = <<>>
    /\ decoded = None
    /\ step = "new"
    /\ mark = NoMark
    /\ ticks = 0

\* encode_document(&mut buf, &doc)
Encode ==
    /\ step = "new"
    /\ wire' = encode_document(doc)
    /\ step' = "encoded"
    /\ UNCHANGED << doc, decoded, mark >>
    /\ UNCHANGED << ticks, build, bridgeVars, serVars, docVars >>

\* A document holding one array, the elements of the array written by
\* encode_bson under the keys of doc instead of the positions.
EncodeKeyedArray ==
    /\ step = "new"
    /\ wire' = PatchLength(<< 0, 0, 0, 0, 4 >> \o write_cstring(K_a)
                            \o encode_document(doc) \o << 0 >>)
    /\ mark' = [op |-> "KeyedArray"]
    /\ step' = "tampered"
    /\ UNCHANGED << doc, decoded >>
    /\ UNCHANGED << ticks, build, bridgeVars, serVars, docVars >>

\* The reader ends after n bytes of the encoding.
Truncate ==
    /\ step = "encoded"
    /\ \E n \in 0..(Len(wire) - 1) :
          /\ wire' = Take(wire, n)
          /\ mark' = [op |-> "Truncate", n |-> n]
    /\ step' = "tampered"
    /\ UNCHANGED << doc, decoded >>
    /\ UNCHANGED << ticks, build, bridgeVars, serVars, docVars >>

\* The tag byte of one element, at any depth, names no Value.
SetTag ==
    /\ step = "encoded"
    /\ \E f \in Fields(doc), tag \in BadTags :
          /\ f.kind = "tag"
          /\ wire' = [wire EXCEPT ![f.at] = tag]
          /\ mark' = [op |-> "SetTag", at |-> f.at, tag |-> tag]
    /\ step' = "tampered"
    /\ UNCHANGED << doc, decoded >>
    /\ UNCHANGED << ticks, build, bridgeVars, serVars, docVars >>

\* The declared length of one string, at any depth, is another number.
SetLength ==
    /\ step = "encoded"
    /\ \E f \in Fields(doc), len \in Lengths :
          /\ f.kind = "strlen"
          /\ wire' = Take(wire, f.at - 1) \o I32Bytes(len) \o Drop(wire, f.at + 3)
          /\ mark' = [op |-> "SetLength", at |-> f.at, len |-> len]
    /\ step' = "tampered"
    /\ UNCHANGED << doc, decoded >>
    /\ UNCHANGED << ticks, build, bridgeVars, serVars, docVars >>

\* Bytes that occur in no UTF-8 text.
NeverUtf8 == { 255, 192 }

\* One byte of a cstring or of the content of a length-prefixed string, at
\* any depth, is a byte no UTF-8 text holds.
SetByte ==
    /\ step = "encoded"
    /\ \E f \in Fields(doc), byte \in NeverUtf8 :
          /\ f.kind \in { "cstr", "content" }
          /\ wire' = [wire EXCEPT ![f.at] = byte]
          /\ mark' = [op |-> "SetByte", kind |-> f.kind, at |-> f.at, byte |-> byte,
                      was |-> wire[f.at]]
    /\ step' = "tampered"
    /\ UNCHANGED << doc, decoded >>
    /\ UNCHANGED << ticks, build, bridgeVars, serVars, docVars >>

\* The numbers a length prefix is overwritten with.
Prefixes == { 0, -1, 5, 1000 }

\* The length prefix of the document, or of one document, array or code
\* with scope in it, at any depth, is another number.
SetPrefix ==
    /\ step = "encoded"
    /\ \E f \in Fields(doc), len \in Prefixes :
          /\ f.kind = "prefix"
          /\ wire' = Take(wire, f.at - 1) \o I32Bytes(len) \o Drop(wire, f.at + 3)
          /\ mark' = [op |-> "SetPrefix", at |-> f.at, len |-> len,
                      was |-> SubSeq(wire, f.at, f.at + 3)]
    /\ step' = "tampered"
    /\ UNCHANGED << doc, decoded >>
    /\ UNCHANGED << ticks, build, bridgeVars, serVars, docVars >>

\* The declared length of one Binary, at any depth, is another number.
SetBinaryLength ==
    /\ step = "encoded"
    /\ \E f \in Fields(doc), len \in Lengths :
          /\ f.kind = "binlen"
          /\ wire' = Take(wire, f.at - 1) \o I32Bytes(len) \o Drop(wire, f.at + 3)
          /\ mark' = [op |-> "SetBinaryLength", at |-> f.at, len |-> len]
    /\ step' = "tampered"
    /\ UNCHANGED << doc, decoded >>
    /\ UNCHANGED << ticks, build, bridgeVars, serVars, docVars >>

\* The values a key is written with a second time.
RepeatValues == { Null, Int32(-1), String(S_hi) }

\* The bytes of a producer that writes a key of doc twice: the elements are
\* those encode_bson writes for the entries of doc, and after one of them
\* one more element under a key already written.
RepeatKey ==
    /\ step = "new"
    /\ \E k \in 1..Len(doc) : \E p \in k..Len(doc) : \E v \in RepeatValues :
          LET entries == Take(doc, p) \o << << doc[k][1], v >> >> \o Drop(doc, p)
          IN  /\ wire' = encode_document(entries)
              /\ mark' = [op |-> "RepeatKey", entries |-> entries]
    /\ step' = "tampered"
    /\ UNCHANGED << doc, decoded >>
    /\ UNCHANGED << ticks, build, bridgeVars, serVars, docVars >>

\* decode_document(&mut Cursor::new(wire))
Decode ==
    /\ step \in { "encoded", "tampered" }
    /\ decoded' = decode_document(wire, 0)
    /\ step' = "decoded"
    /\ UNCHANGED << doc, wire, mark >>
    /\ UNCHANGED << ticks, build, bridgeVars, serVars, docVars >>

NextCodec ==
    Encode \/ EncodeKeyedArray \/ Truncate \/ SetTag \/ SetLength \/ SetByte \/ SetPrefix
        \/ SetBinaryLength \/ RepeatKey \/ Decode

InitIdleBridge == val = Null /\ ext = None /\ back = None /\ bstep = "idle"
InitIdleSer == sval = Null /\ sres = None /\ sstep = "idle"
InitIdleDoc == dmap = <<>> /\ dprev = <<>> /\ dcall = NoMark /\ dret = None

Init == InitCodec /\ build = "release" /\ InitIdleBridge /\ InitIdleSer /\ InitIdleDoc

Next == NextCodec

Spec == Init /\ [][Next]_vars

-----------------------------------------------------------------------------
(* 64-bit arithmetic on the 8 little-endian bytes of an i64                 *)

RECURSIVE AddBytes(_, _, _)
\* The bytes of a + b + carry, the carry out of the last byte dropped.
AddBytes(a, b, carry) ==
    IF a = <<>> THEN <<>>
    ELSE LET sum == Head(a) + Head(b) + carry
         IN  << sum % 256 >> \o AddBytes(Tail(a), Tail(b), sum \div 256)

IsNegative(b) == b[Len(b)] >= 128

\* a << 32 on an i64: the high 32 bits are shifted out.
Shl32(a) == << 0, 0, 0, 0 >> \o Take(a, 4)

\* a >> 32 on an i64: the sign is shifted in.
Shr32(a) ==
    LET s == IF IsNegative(a) THEN 255 ELSE 0
    IN  Drop(a, 4) \o << s, s, s, s >>

\* a & 0xFFFF_FFFF on an i64
Low32(a) == Take(a, 4) \o << 0, 0, 0, 0 >>

\* a + b on i64: an overflow panics in a debug build and wraps in a release
\* build.
AddI64(a, b, profile) ==
    LET sum == AddBytes(a, b, 0)
        overflow == IsNegative(a) = IsNegative(b) /\ IsNegative(sum) # IsNegative(a)
    IN  IF overflow /\ profile = "debug" THEN [st |-> "Panic"]
        ELSE [st |-> "Ok", v |-> sum]

-----------------------------------------------------------------------------
(* The hex codec and ObjectId's strings (crate::util::hex, crate::object_id) *)

HexDigit(n) == IF n < 10 THEN 48 + n ELSE 87 + n

RECURSIVE to_hex(_)
\* ToHex::to_hex: two lowercase hexadecimal digits per byte.
to_hex(bytes) ==
    IF bytes = <<>> THEN <<>>
    ELSE << HexDigit(Head(bytes) \div 16), HexDigit(Head(bytes) % 16) >> \o to_hex(Tail(bytes))

\* The value of a hexadecimal digit, of either case; -1 for any other byte.
HexValue(c) ==
    IF c >= 48 /\ c <= 57 THEN c - 48
    ELSE IF c >= 97 /\ c <= 102 THEN c - 87
    ELSE IF c >= 65 /\ c <= 70 THEN c - 55
    ELSE -1

RECURSIVE HexPairs(_)
HexPairs(h) ==
    IF h = <<>> THEN <<>>
    ELSE << 16 * HexValue(h[1]) + HexValue(h[2]) >> \o HexPairs(Drop(h, 2))

\* FromHex::from_hex: the bytes, or an error for a string of odd length or
\* with a byte that is no hexadecimal digit.
from_hex(h) ==
    IF Len(h) % 2 = 1 \/ \E k \in 1..Len(h) : HexValue(h[k]) < 0
    THEN [st |-> "Err"]
    ELSE [st |-> "Ok", v |-> HexPairs(h)]

\* ObjectId::with_string: the 12 bytes a string of 24 hexadecimal digits
\* stands for.
with_string(h) ==
    LET bytes == from_hex(h)
    IN  IF bytes.st = "Ok" /\ Len(bytes.v) = 12 THEN bytes ELSE [st |-> "Err"]

-----------------------------------------------------------------------------
(* Document's typed accessors (src/src/doc.rs)                              *)

NotPresent == [st |-> "Err", err |-> "NotPresent"]
UnexpectedType == [st |-> "Err", err |-> "UnexpectedType"]

\* Document::get
get(d, key) ==
    LET k == IndexOf(d, key)
    IN  IF k = 0 THEN [st |-> "None"] ELSE [st |-> "Some", v |-> d[k][2]]

get_str(d, key) ==
    LET e == get(d, key)
    IN  IF e.st = "None" THEN NotPresent
        ELSE IF e.v.t = "String" THEN [st |-> "Ok", v |-> e.v.s]
        ELSE UnexpectedType

get_i32(d, key) ==
    LET e == get(d, key)
    IN  IF e.st = "None" THEN NotPresent
        ELSE IF e.v.t = "Int32" THEN [st |-> "Ok", v |-> e.v.i32]
        ELSE UnexpectedType

get_i64(d, key) ==
    LET e == get(d, key)
    IN  IF e.st = "None" THEN NotPresent
        ELSE IF e.v.t = "Int64" THEN [st |-> "Ok", v |-> e.v.i64]
        ELSE UnexpectedType

get_document(d, key) ==
    LET e == get(d, key)
    IN  IF e.st = "None" THEN NotPresent
        ELSE IF e.v.t = "Document" THEN [st |-> "Ok", v |-> e.v.d]
        ELSE UnexpectedType

get_f64(d, key) ==
    LET e == get(d, key)
    IN  IF e.st = "None" THEN NotPresent
        ELSE IF e.v.t = "Double" THEN [st |-> "Ok", v |-> e.v.f]
        ELSE UnexpectedType

get_array(d, key) ==
    LET e == get(d, key)
    IN  IF e.st = "None" THEN NotPresent
        ELSE IF e.v.t = "Array" THEN [st |-> "Ok", v |-> e.v.a]
        ELSE UnexpectedType

get_bool(d, key) ==
    LET e == get(d, key)
    IN  IF e.st = "None" THEN NotPresent
        ELSE IF e.v.t = "Boolean" THEN [st |-> "Ok", v |-> e.v.b]
        ELSE UnexpectedType

\* An accessor that hands out the bytes of a Binary of any subtype.
get_binary_any(d, key) ==
    LET e == get(d, key)
    IN  IF e.st = "None" THEN NotPresent
        ELSE IF e.v.t = "Binary" THEN [st |-> "Ok", v |-> e.v.data]
        ELSE UnexpectedType

\* Document::get_binary: the pattern is Binary(BinarySubtype::Generic, v).
get_binary(d, key) ==
    LET e == get(d, key)
    IN  IF e.st = "None" THEN NotPresent
        ELSE IF e.v.t = "Binary" /\ e.v.subtype = Generic
             THEN [st |-> "Ok", v |-> e.v.data]
        ELSE UnexpectedType

get_object_id(d, key) ==
    LET e == get(d, key)
    IN  IF e.st = "None" THEN NotPresent
        ELSE IF e.v.t = "ObjectId" THEN [st |-> "Ok", v |-> e.v.oid]
        ELSE UnexpectedType

\* Document::get_time_stamp: the 64 bits of the payload.
get_time_stamp(d, key) ==
    LET e == get(d, key)
    IN  IF e.st = "None" THEN NotPresent
        ELSE IF e.v.t = "TimeStamp" THEN [st |-> "Ok", v |-> e.v.ts]
        ELSE UnexpectedType

get_utc_datetime(d, key) ==
    LET e == get(d, key)
    IN  IF e.st = "None" THEN NotPresent
        ELSE IF e.v.t = "UTCDatetime"
             THEN [st |-> "Ok", v |-> [secs |-> e.v.secs, nanos |-> e.v.nanos]]
        ELSE UnexpectedType

-----------------------------------------------------------------------------
(* The extended-document bridge (src/src/value.rs)                          *)

K_regex == << 36, 114, 101, 103, 101, 120 >>    \* "$regex"
K_options == << 36, 111, 112, 116, 105, 111, 110, 115 >>    \* "$options"
K_code == << 36, 99, 111, 100, 101 >>    \* "$code"
K_scope == << 36, 115, 99, 111, 112, 101 >>    \* "$scope"
K_t == << 116 >>    \* "t"
K_i == << 105 >>    \* "i"
K_binary == << 36, 98, 105, 110, 97, 114, 121 >>    \* "$binary"
K_type == << 116, 121, 112, 101 >>    \* "type"
K_oid == << 36, 111, 105, 100 >>    \* "$oid"
K_date == << 36, 100, 97, 116, 101 >>    \* "$date"
K_numberLong == << 36, 110, 117, 109, 98, 101, 114, 76, 111, 110, 103 >>    \* "$numberLong"
K_symbol == << 36, 115, 121, 109, 98, 111, 108 >>    \* "$symbol"

Returned(v) == [st |-> "Ok", v |-> v]
Panicked == [st |-> "Panic"]

\* doc!{ k1: v1 } and doc!{ k1: v1, k2: v2 }: a new Document and an insert
\* per pair.
Doc1(k1, v1) == insert(<<>>, k1, v1)
Doc2(k1, v1, k2, v2) == insert(insert(<<>>, k1, v1), k2, v2)

\* The TimeStamp arm of to_extended_document: both halves are cast to i32.
TimeStampPair(v) ==
    LET time == I32Of(Take(Shr32(v), 4))
        inc == I32Of(Take(Low32(v), 4))
    IN  Doc2(K_t, Int32(time), K_i, Int32(inc))

\* Value::to_extended_document
to_extended_document(v) ==
    CASE v.t = "RegExp" -> Returned(Doc2(K_regex, String(v.pat), K_options, String(v.opt)))
      [] v.t = "JavaScriptCode" -> Returned(Doc1(K_code, String(v.code)))
      [] v.t = "JavaScriptCodeWithScope" ->
            Returned(Doc2(K_code, String(v.code), K_scope, Document(v.scope)))
      [] v.t = "TimeStamp" -> Returned(TimeStampPair(v.ts))
      [] v.t = "Binary" ->
            Returned(Doc2(K_binary, String(to_hex(v.data)),
                          K_type, Int64(I64FromI32(BinarySubtypeTag(v.subtype)))))
      [] v.t = "ObjectId" -> Returned(Doc1(K_oid, String(to_hex(v.oid))))
      [] v.t = "UTCDatetime" ->
            Returned(Doc1(K_date,
                Document(Doc1(K_numberLong, Int64(I64FromI32(DatetimeMillis(v)))))))
      [] v.t = "Symbol" -> Returned(Doc1(K_symbol, String(v.sym)))
      [] OTHER -> Panicked

\* Utc.timestamp(secs, nsecs): timestamp_opt, unwrapped.
UtcTimestamp(secs, nsecs) ==
    LET t == timestamp_opt(secs, nsecs)
    IN  IF t.single THEN Returned(UTCDatetime(t.secs, t.nanos)) ELSE Panicked

\* The $date arm of from_extended_document.
DateFromMillis(long) ==
    IF ~I64FitsI32(long) THEN [st |-> "Unmodelled"]
    ELSE LET m == I32Of(Take(long, 4))
         IN  UtcTimestamp(TruncDiv(m, 1000), TruncRem(m, 1000) * 1000000)

\* The two "t", "i" arms of from_extended_document.
TimeStampFromI32(t, i, profile) ==
    LET timestamp == AddI64(Shl32(I64FromI32(t)), I64FromI32(i), profile)
    IN  IF timestamp.st = "Ok" THEN Returned(TimeStamp(timestamp.v)) ELSE Panicked

TimeStampFromI64(t, i, profile) ==
    LET timestamp == AddI64(Shl32(t), i, profile)
    IN  IF timestamp.st = "Ok" THEN Returned(TimeStamp(timestamp.v)) ELSE Panicked

\* The "$binary", "type" arm: the subtype is the low byte of the i64.
BinaryFromHex(hex, t) ==
    LET bytes == from_hex(hex)
    IN  IF bytes.st = "Ok" THEN Returned(Binary(BinarySubtypeFrom(t[1]), bytes.v))
        ELSE Panicked

\* The "$oid" arm.
ObjectIdFromHex(hex) ==
    LET bytes == with_string(hex)
    IN  IF bytes.st = "Ok" THEN Returned(ObjectId(bytes.v)) ELSE Panicked

\* values.get_document("$date").and_then(|inner| inner.get_i64("$numberLong"))
DateNumberLong(values) ==
    LET inner == get_document(values, K_date)
    IN  IF inner.st = "Ok" THEN get_i64(inner.v, K_numberLong) ELSE inner

\* A from_extended_document that looks at the keys and not at the size.
from_extended_document_any_size(values, profile) ==
    IF get_str(values, K_regex).st = "Ok" /\ get_str(values, K_options).st = "Ok"
    THEN Returned(RegExp(get_str(values, K_regex).v, get_str(values, K_options).v))
    ELSE IF get_str(values, K_symbol).st = "Ok"
    THEN Returned(Symbol(get_str(values, K_symbol).v))
    ELSE Returned(Document(values))

\* Value::from_extended_document
from_extended_document(values, profile) ==
    IF Len(values) = 2 THEN
        IF get_str(values, K_regex).st = "Ok" /\ get_str(values, K_options).st = "Ok"
        THEN Returned(RegExp(get_str(values, K_regex).v, get_str(values, K_options).v))
        ELSE IF get_str(values, K_code).st = "Ok" /\ get_document(values, K_scope).st = "Ok"
        THEN Returned(JavaScriptCodeWithScope(get_str(values, K_code).v,
                                              get_document(values, K_scope).v))
        ELSE IF get_i32(values, K_t).st = "Ok" /\ get_i32(values, K_i).st = "Ok"
        THEN TimeStampFromI32(get_i32(values, K_t).v, get_i32(values, K_i).v, profile)
        ELSE IF get_i64(values, K_t).st = "Ok" /\ get_i64(values, K_i).st = "Ok"
        THEN TimeStampFromI64(get_i64(values, K_t).v, get_i64(values, K_i).v, profile)
        ELSE IF get_str(values, K_binary).st = "Ok" /\ get_i64(values, K_type).st = "Ok"
        THEN BinaryFromHex(get_str(values, K_binary).v, get_i64(values, K_type).v)
        ELSE Returned(Document(values))
    ELSE IF Len(values) = 1 THEN
        IF get_str(values, K_code).st = "Ok"
        THEN Returned(JavaScriptCode(get_str(values, K_code).v))
        ELSE IF get_str(values, K_oid).st = "Ok"
        THEN ObjectIdFromHex(get_str(values, K_oid).v)
        ELSE IF DateNumberLong(values).st = "Ok"
        THEN DateFromMillis(DateNumberLong(values).v)
        ELSE IF get_str(values, K_symbol).st = "Ok"
        THEN Returned(Symbol(get_str(values, K_symbol).v))
        ELSE Returned(Document(values))
    ELSE Returned(Document(values))

-----------------------------------------------------------------------------
(* The bridge under test: a Value is converted to its extended document and *)
(* back, or a Document built by hand is matched against the shapes          *)

\* The 32-bit halves of the timestamps under test: 0, 1, 2^31 - 1, 2^31 and
\* 2^32 - 1.
Halves ==
    { << 0, 0, 0, 0 >>, << 1, 0, 0, 0 >>, << 255, 255, 255, 127 >>,
      << 0, 0, 0, 128 >>, << 255, 255, 255, 255 >> }

TimeStamps == { TimeStamp(lo \o hi) : lo \in Halves, hi \in Halves }

Exotics ==
    TimeStamps \cup
    { RegExp(K_a, <<>>), RegExp(S_hi, << 105 >>),
      JavaScriptCode(S_hi), JavaScriptCode(<<>>),
      JavaScriptCodeWithScope(S_hi, << << K_a, Int32(7) >> >>),
      JavaScriptCodeWithScope(<<>>, <<>>),
      Binary(Generic, << 1, 2, 3, 4 >>), Binary(UserDefined(128), <<>>),
      Binary([kind |-> "Md5"], << 255, 0, 171 >>),
      ObjectId(<< 1, 2, 3, 4, 5, 6, 7, 8, 9, 10, 11, 12 >>),
      ObjectId(<< 255, 254, 0, 16, 171, 205, 239, 1, 35, 69, 103, 137 >>),
      UTCDatetime(1, 2000000), UTCDatetime(0, 0), UTCDatetime(-1, 0),
      UTCDatetime(0, 500), BeforeEpoch,
      Symbol(K_a), Symbol(<<>>) }

\* Values of the variants to_extended_document has no arm for.
Natives == { Int32(7), String(S_hi), Null, Array(<<>>), Boolean(TRUE) }

\* Documents built by hand: shapes with a value of another type, with an
\* entry too many, with the keys in the other order, with a string that is
\* no hexadecimal number, and with a negative millisecond count.
HandBuilt ==
    { Document(<<>>),
      Document(<< << K_a, Int32(7) >> >>),
      Document(<< << K_i, Int32(1) >>, << K_t, Int32(2) >> >>),
      Document(<< << K_t, Int32(1) >>, << K_i, Int64(I64FromI32(2)) >> >>),
      Document(<< << K_code, String(S_hi) >>, << K_scope, Int32(7) >> >>),
      Document(<< << K_regex, String(K_a) >>, << K_options, String(<<>>) >>, << K_a, Null >> >>),
      Document(<< << K_symbol, Int32(7) >> >>),
      Document(<< << K_oid, String(<< 122, 122 >>) >> >>),
      Document(<< << K_binary, String(<< 48, 103 >>) >>, << K_type, Int64(I64FromI32(0)) >> >>),
      Document(<< << K_binary, String(<< 48, 65 >>) >>, << K_type, Int64(I64FromI32(-1)) >> >>),
      Document(<< << K_date, Document(<< << K_numberLong, Int64(I64FromI32(-1)) >> >>) >> >>),
      Document(<< << K_date, Document(<< << K_numberLong, Int32(5) >> >>) >> >>) }

\* The extended documents of the exotic values, built by hand.
ShapeDocs == { to_extended_document(v).v : v \in Exotics \ TimeStamps }
    \cup { Doc2(K_t, Int32(1), K_i, Int32(2)),
           Doc2(K_t, Int64(I64FromI32(1)), K_i, Int64(I64FromI32(2))) }

\* What takes the place of a value or joins as an entry too many.
Misfits == { Null, Int32(7), String(K_a), Document(<<>>) }

\* The same with one value replaced, with one key replaced, and with one
\* more entry.
NearShapes ==
    UNION { { Document(d) }
            \cup { Document([d EXCEPT ![n] = << d[n][1], w >>]) :
                        n \in 1..Len(d), w \in Misfits }
            \cup { Document([d EXCEPT ![n] = << K_a, d[n][2] >>]) : n \in 1..Len(d) }
            \cup { Document(Append(d, << K_a, w >>)) : w \in Misfits }
          : d \in ShapeDocs }

BridgeValues == Exotics \cup Natives \cup HandBuilt \cup NearShapes

InitIdleCodec ==
    /\ doc = <<>> /\ wire = <<>> /\ decoded = None /\ step = "idle" /\ mark = NoMark
    /\ ticks = 0

InitBridge ==
    /\ val \in BridgeValues
    /\ build \in { "debug", "release" }
    /\ ext = None
    /\ back = None
    /\ bstep = "start"
    /\ InitIdleCodec
    /\ InitIdleSer
    /\ InitIdleDoc

\* val.to_extended_document()
ToExtended ==
    /\ bstep = "start"
    /\ ext' = to_extended_document(val)
    /\ bstep' = "extended"
    /\ UNCHANGED << val, back >>
    /\ UNCHANGED << build, codecVars, serVars, docVars >>

\* Value::from_extended_document(ext)
FromExtended ==
    /\ bstep = "extended"
    /\ ext.st = "Ok"
    /\ back' = from_extended_document(ext.v, build)
    /\ bstep' = "back"
    /\ UNCHANGED << val, ext >>
    /\ UNCHANGED << build, codecVars, serVars, docVars >>

\* The halves of a timestamp kept as i64, the high one shifted down and the
\* low one masked, and the pair handed to from_extended_document.
FromInt64Pair ==
    /\ bstep = "start"
    /\ val.t = "TimeStamp"
    /\ ext' = Returned(Doc2(K_t, Int64(Shr32(val.ts)), K_i, Int64(Low32(val.ts))))
    /\ back' = from_extended_document(ext'.v, build)
    /\ bstep' = "back64"
    /\ UNCHANGED val
    /\ UNCHANGED << build, codecVars, serVars, docVars >>

\* Value::from_extended_document(d), for a Document d built by hand
FromDocument ==
    /\ bstep = "start"
    /\ val.t = "Document"
    /\ back' = from_extended_document(val.d, build)
    /\ bstep' = "matched"
    /\ UNCHANGED << val, ext >>
    /\ UNCHANGED << build, codecVars, serVars, docVars >>

NextBridge == ToExtended \/ FromExtended \/ FromInt64Pair \/ FromDocument

SpecBridge == InitBridge /\ [][NextBridge]_vars

-----------------------------------------------------------------------------
(* The to-Value serializer (src/src/serde_impl/encode.rs)                   *)
(* A typed value is the tree of Serializer calls its Serialize impl makes:  *)
(* k names the call, the other fields are the call's arguments.             *)

TBool(b) == [k |-> "bool", b |-> b]
TI8(n) == [k |-> "i8", n |-> n]
TI16(n) == [k |-> "i16", n |-> n]
TI32(n) == [k |-> "i32", n |-> n]
TI64(w) == [k |-> "i64", w |-> w]
TU8(n) == [k |-> "u8", u |-> n]
TU16(n) == [k |-> "u16", u |-> n]
TU32(w) == [k |-> "u32", uw |-> w]
TU64(w) == [k |-> "u64", uw |-> w]
TF64(f) == [k |-> "f64", f |-> f]
TStr(s) == [k |-> "str", s |-> s]
TBytes(data) == [k |-> "bytes", data |-> data]
TNone == [k |-> "none"]
TSome(inner) == [k |-> "some", inner |-> inner]
TUnit == [k |-> "unit"]
TUnitVariant(variant) == [k |-> "unit_variant", variant |-> variant]
TNewtypeStruct(inner) == [k |-> "newtype_struct", inner |-> inner]
TNewtypeVariant(variant, inner) ==
    [k |-> "newtype_variant", variant |-> variant, inner |-> inner]
TSeq(items) == [k |-> "seq", items |-> items]
TTuple(items) == [k |-> "tuple", items |-> items]
TTupleStruct(items) == [k |-> "tuple_struct", items |-> items]
TTupleVariant(variant, items) ==
    [k |-> "tuple_variant", variant |-> variant, items |-> items]
TMap(pairs) == [k |-> "map", pairs |-> pairs]
TStruct(fields) == [k |-> "struct", fields |-> fields]
TStructVariant(variant, fields) ==
    [k |-> "struct_variant", variant |-> variant, fields |-> fields]

UnsupportedUnsignedType == [kind |-> "UnsupportedUnsignedType"]
InvalidMapKeyType(v) == [kind |-> "InvalidMapKeyType", v |-> v]
Failed(e) == [st |-> "Err", err |-> e]

serialize_bool(value) == Returned(Boolean(value))
serialize_i32(value) == Returned(Int32(value))
serialize_i8(value) == serialize_i32(value)
serialize_i16(value) == serialize_i32(value)
serialize_i64(value) == Returned(Int64(value))
\* A serializer that casts a u8 to an i32.
serialize_u8_cast(value) == Returned(Int32(value))

serialize_u8(value) == Failed(UnsupportedUnsignedType)
serialize_u16(value) == Failed(UnsupportedUnsignedType)
serialize_u32(value) == Failed(UnsupportedUnsignedType)
serialize_u64(value) == Failed(UnsupportedUnsignedType)
serialize_f64(value) == Returned(Double(value))
serialize_str(value) == Returned(String(value))
serialize_bytes(value) == Returned(Binary(Generic, value))
serialize_unit == Returned(Null)
serialize_none == serialize_unit
serialize_unit_variant(variant) == Returned(String(variant))

\* MapSerializer::end and StructSerializer::end
EndDocument(inner, profile) == from_extended_document(inner, profile)

\* TupleVariantSerializer::end
EndTupleVariant(name, inner) == Returned(Document(insert(<<>>, name, Array(inner))))

\* StructVariantSerializer::end
EndStructVariant(name, inner, profile) ==
    LET var == from_extended_document(inner, profile)
    IN  IF var.st # "Ok" THEN var
        ELSE Returned(Document(insert(<<>>, name, var.v)))

RECURSIVE to_bson(_, _), SerializeElements(_, _, _), SerializeEntries(_, _, _), SerializeFields(_, _, _)
RECURSIVE SerializeEntriesAnyKey(_, _, _)

\* serialize_element / serialize_field of the four Array serializers, for
\* every element in turn: the first failure is returned.
SerializeElements(items, inner, profile) ==
    IF items = <<>> THEN Returned(inner)
    ELSE LET e == to_bson(Head(items), profile)
         IN  IF e.st # "Ok" THEN e
             ELSE SerializeElements(Tail(items), Append(inner, e.v), profile)

\* A MapSerializer that enters the value of a key that is no String under
\* the empty key.
SerializeEntriesAnyKey(pairs, inner, profile) ==
    IF pairs = <<>> THEN Returned(inner)
    ELSE LET key == to_bson(Head(pairs)[1], profile)
             e == to_bson(Head(pairs)[2], profile)
         IN  IF key.st # "Ok" THEN key
             ELSE IF e.st # "Ok" THEN e
             ELSE SerializeEntriesAnyKey(Tail(pairs),
                      insert(inner, IF key.v.t = "String" THEN key.v.s ELSE <<>>, e.v), profile)

\* MapSerializer's serialize_key and serialize_value, for every entry in
\* turn: a key that is no String fails with InvalidMapKeyType.
SerializeEntries(pairs, inner, profile) ==
    IF pairs = <<>> THEN Returned(inner)
    ELSE LET key == to_bson(Head(pairs)[1], profile)
         IN  IF key.st # "Ok" THEN key
             ELSE IF key.v.t # "String" THEN Failed(InvalidMapKeyType(key.v))
             ELSE LET e == to_bson(Head(pairs)[2], profile)
                  IN  IF e.st # "Ok" THEN e
                      ELSE SerializeEntries(Tail(pairs), insert(inner, key.v.s, e.v), profile)

\* serialize_field of StructSerializer and StructVariantSerializer, for every
\* field in turn.
SerializeFields(fields, inner, profile) ==
    IF fields = <<>> THEN Returned(inner)
    ELSE LET e == to_bson(Head(fields)[2], profile)
         IN  IF e.st # "Ok" THEN e
             ELSE SerializeFields(Tail(fields), insert(inner, Head(fields)[1], e.v), profile)

\* to_bson(value): value.serialize(Encoder::new())
to_bson(x, profile) ==
    CASE x.k = "bool" -> serialize_bool(x.b)
      [] x.k = "i8" -> serialize_i8(x.n)
      [] x.k = "i16" -> serialize_i16(x.n)
      [] x.k = "i32" -> serialize_i32(x.n)
      [] x.k = "i64" -> serialize_i64(x.w)
      [] x.k = "u8" -> serialize_u8(x.u)
      [] x.k = "u16" -> serialize_u16(x.u)
      [] x.k = "u32" -> serialize_u32(x.uw)
      [] x.k = "u64" -> serialize_u64(x.uw)
      [] x.k = "f64" -> serialize_f64(x.f)
      [] x.k = "str" -> serialize_str(x.s)
      [] x.k = "bytes" -> serialize_bytes(x.data)
      [] x.k = "none" -> serialize_none
      [] x.k = "some" -> to_bson(x.inner, profile)
      [] x.k = "unit" -> serialize_unit
      [] x.k = "unit_variant" -> serialize_unit_variant(x.variant)
      [] x.k = "newtype_struct" -> to_bson(x.inner, profile)
      [] x.k = "newtype_variant" ->
            LET e == to_bson(x.inner, profile)
            IN  IF e.st # "Ok" THEN e
                ELSE Returned(Document(insert(<<>>, x.variant, e.v)))
      [] x.k \in { "seq", "tuple", "tuple_struct" } ->
            LET inner == SerializeElements(x.items, <<>>, profile)
            IN  IF inner.st # "Ok" THEN inner ELSE Returned(Array(inner.v))
      [] x.k = "tuple_variant" ->
            LET inner == SerializeElements(x.items, <<>>, profile)
            IN  IF inner.st # "Ok" THEN inner ELSE EndTupleVariant(x.variant, inner.v)
      [] x.k = "map" ->
            LET inner == SerializeEntries(x.pairs, <<>>, profile)
            IN  IF inner.st # "Ok" THEN inner ELSE EndDocument(inner.v, profile)
      [] x.k = "struct" ->
            LET inner == SerializeFields(x.fields, <<>>, profile)
            IN  IF inner.st # "Ok" THEN inner ELSE EndDocument(inner.v, profile)
      [] x.k = "struct_variant" ->
            LET inner == SerializeFields(x.fields, <<>>, profile)
            IN  IF inner.st # "Ok" THEN inner
                ELSE EndStructVariant(x.variant, inner.v, profile)

RECURSIVE ValueTree(_)
\* impl Serialize for Value, Document and Vec<Value>: the calls serializing
\* the Value v makes.
ValueTree(v) ==
    CASE v.t = "Double" -> TF64(v.f)
      [] v.t = "String" -> TStr(v.s)
      [] v.t = "Array" -> TSeq([n \in 1..Len(v.a) |-> ValueTree(v.a[n])])
      [] v.t = "Document" ->
            TMap([n \in 1..Len(v.d) |-> << TStr(v.d[n][1]), ValueTree(v.d[n][2]) >>])
      [] v.t = "Boolean" -> TBool(v.b)
      [] v.t = "Null" -> TUnit
      [] v.t = "Int32" -> TI32(v.i32)
      [] v.t = "Int64" -> TI64(v.i64)
      [] OTHER ->
            LET d == to_extended_document(v).v
            IN  TMap([n \in 1..Len(d) |-> << TStr(d[n][1]), ValueTree(d[n][2]) >>])

-----------------------------------------------------------------------------
(* The serializer under test: a typed value handed to to_bson               *)

V_name == << 86 >>    \* a variant called "V"

Unsigneds ==
    { TU8(0), TU8(200), TU16(65535), TU32(<< 255, 255, 255, 255 >>),
      TU64(<< 255, 255, 255, 255, 255, 255, 255, 255 >>) }

Leaves ==
    Unsigneds \cup
    { TBool(TRUE), TI8(-1), TI16(300), TI32(7),
      TI64(<< 1, 0, 0, 0, 0, 0, 0, 128 >>),
      TF64(<< 0, 0, 0, 0, 0, 0, 240, 63 >>),
      TStr(S_hi), TStr(K_a), TBytes(<< 1, 2 >>),
      TNone, TUnit, TUnitVariant(V_name) }

\* x as the payload of an option, a newtype and an enum variant, as an
\* element of a sequence and of the three tuples, as a value and as a key of
\* a map, and as a field of a struct and of a struct variant.
Wrap(x) ==
    { TSome(x), TNewtypeStruct(x), TNewtypeVariant(V_name, x),
      TSeq(<< TI32(7), x >>),
      TTuple(<< x, TStr(S_hi) >>), TTupleStruct(<< x >>),
      TTupleVariant(V_name, << x >>),
      TMap(<< << TStr(K_a), x >> >>),
      TMap(<< << TStr(K_a), TI32(7) >>, << TStr(K_b), x >> >>),
      TMap(<< << x, TUnit >> >>),
      TStruct(<< << K_b, TBool(TRUE) >>, << K_a, x >> >>),
      TStructVariant(V_name, << << K_a, x >> >>) }

\* How many containers deep the typed values under test go.
MaxDepth == 2

RECURSIVE Trees(_)
Trees(n) ==
    IF n = 0 THEN Leaves
    ELSE Trees(n - 1) \cup UNION { Wrap(x) : x \in Trees(n - 1) }

\* Structs and struct variants that have the keys of an extended document
\* (and one that has not), and Values
\* serialized by their own Serialize impl.
ShapedTrees ==
    { TStruct(<< << K_oid, TStr(<< 122, 122 >>) >> >>),
      TSeq(<< TStruct(<< << K_oid, TStr(<< 122, 122 >>) >> >>), TU8(200) >>),
      TStruct(<< << K_t, TI32(1) >>, << K_i, TI32(-1) >> >>),
      TStruct(<< << K_t, TU32(<< 1, 0, 0, 0 >>) >>, << K_i, TU32(<< 0, 0, 0, 128 >>) >> >>),
      TStruct(<< << K_symbol, TStr(K_a) >> >>),
      TStructVariant(V_name, << << K_t, TI32(1) >>, << K_i, TI32(2) >> >>),
      TStructVariant(V_name, << << K_b, TI32(1) >>, << K_a, TStr(S_hi) >> >>),
      TMap(<< << TStr(K_a), TI32(1) >>, << TStr(K_a), TU16(2) >> >>),
      TMap(<< << TStr(K_a), TI32(1) >>, << TStr(K_a), TI32(2) >> >>) }
    \cup { ValueTree(v) : v \in Samples \cup Exotics }

SerInputs == Trees(MaxDepth) \cup ShapedTrees

\* A to_vec that writes the encoding of the empty document for a value that
\* is no Document.
to_vec_lenient(x, profile) ==
    LET bson == to_bson(x, profile)
    IN  IF bson.st # "Ok" THEN bson
        ELSE IF bson.v.t = "Document" THEN Returned(encode_document(bson.v.d))
        ELSE Returned(encode_document(<<>>))

\* to_vec(value): the error of to_bson, the encoding of the Document, or
\* InvalidMapKeyType of the Value that is no Document.
to_vec(x, profile) ==
    LET bson == to_bson(x, profile)
    IN  IF bson.st # "Ok" THEN bson
        ELSE IF bson.v.t = "Document" THEN Returned(encode_document(bson.v.d))
        ELSE Failed(InvalidMapKeyType(bson.v))

InitSer ==
    /\ sval \in SerInputs
    /\ build \in { "debug", "release" }
    /\ sres = None
    /\ sstep = "start"
    /\ InitIdleCodec
    /\ InitIdleBridge
    /\ InitIdleDoc

\* to_bson(&sval)
ToBson ==
    /\ sstep = "start"
    /\ sres' = to_bson(sval, build)
    /\ sstep' = "done"
    /\ UNCHANGED sval
    /\ UNCHANGED << build, codecVars, bridgeVars, docVars >>

\* to_vec(&sval)
ToVec ==
    /\ sstep = "start"
    /\ sres' = to_vec(sval, build)
    /\ sstep' = "to_vec"
    /\ UNCHANGED sval
    /\ UNCHANGED << build, codecVars, bridgeVars, docVars >>

NextSer == ToBson \/ ToVec

SpecSer == InitSer /\ [][NextSer]_vars

-----------------------------------------------------------------------------
(* The MapSerializer call by call (src/src/serde_impl/encode.rs)            *)
(* self is the record of the fields inner and next_key.                     *)

\* Encoder::serialize_map: an empty Document and no pending key.
serialize_map == [inner |-> <<>>, next_key |-> [st |-> "None"]]

\* A call's outcome: the serializer afterwards and the result returned.
Served(self, ret) == [self |-> self, ret |-> ret]

\* () in Ok(())
Unit == [t |-> "Unit"]

\* MapSerializer::serialize_key: to_bson of the key; a String becomes the
\* pending key, any other Value is an InvalidMapKeyType error, and an error
\* of to_bson is returned before next_key is assigned.
serialize_key(self, key, profile) ==
    LET r == to_bson(key, profile)
    IN  IF r.st # "Ok" THEN Served(self, r)
        ELSE IF r.v.t = "String"
        THEN Served([self EXCEPT !.next_key = [st |-> "Some", v |-> r.v.s]], Returned(Unit))
        ELSE Served(self, Failed(InvalidMapKeyType(r.v)))

\* A serialize_value that leaves the pending key in place.
serialize_value_keeping(self, value, profile) ==
    LET key == IF self.next_key.st = "Some" THEN self.next_key.v ELSE <<>>
        e == to_bson(value, profile)
    IN  IF e.st # "Ok" THEN Served(self, e)
        ELSE Served([self EXCEPT !.inner = insert(self.inner, key, e.v)], Returned(Unit))

\* MapSerializer::serialize_value: next_key.take(), the empty string when
\* there is none; then to_bson of the value, whose error is returned before
\* anything is inserted; then inner.insert(key, value).
serialize_value(self, value, profile) ==
    LET key == IF self.next_key.st = "Some" THEN self.next_key.v ELSE <<>>
        taken == [self EXCEPT !.next_key = [st |-> "None"]]
        e == to_bson(value, profile)
    IN  IF e.st # "Ok" THEN Served(taken, e)
        ELSE Served([taken EXCEPT !.inner = insert(taken.inner, key, e.v)], Returned(Unit))

\* The keys and the values the calls are made with: Strings, a unit variant
\* (which to_bson turns into a String), an i32, and a u8, which to_bson
\* rejects.
MapKeyInputs == { TStr(K_a), TStr(K_b), TUnitVariant(V_name), TI32(7), TU8(0) }
MapValueInputs == { TI32(7), TStr(S_hi), TU8(0) }

\* The most calls made on one MapSerializer.
MaxCalls == 4

InitMap ==
    /\ dmap = serialize_map.inner
    /\ dret = serialize_map.next_key
    /\ dprev = <<>>
    /\ dcall = <<>>
    /\ sval = Null
    /\ sres = [st |-> "None"]
    /\ sstep = "serialize_map"
    /\ build = "release"
    /\ InitIdleCodec
    /\ InitIdleBridge

\* The call op(arg) has turned the serializer into r.self and returned
\* r.ret.
Serve(op, arg, r) ==
    /\ Len(dcall) < MaxCalls
    /\ dprev' = dmap
    /\ dmap' = r.self.inner
    /\ dret' = r.self.next_key
    /\ dcall' = Append(dcall, [op |-> op, arg |-> arg, ok |-> r.ret.st = "Ok"])
    /\ sval' = arg
    /\ sres' = r.ret
    /\ sstep' = op
    /\ UNCHANGED << build, codecVars, bridgeVars >>

\* map.serialize_key(&key)
SerializeKey ==
    \E key \in MapKeyInputs :
        Serve("serialize_key", key,
              serialize_key([inner |-> dmap, next_key |-> dret], key, build))

\* map.serialize_value(&value)
SerializeValue ==
    \E value \in MapValueInputs :
        Serve("serialize_value", value,
              serialize_value([inner |-> dmap, next_key |-> dret], value, build))

NextMap == SerializeKey \/ SerializeValue

SpecMap == InitMap /\ [][NextMap]_vars

-----------------------------------------------------------------------------
(* Document's map operations (src/src/doc.rs), each a call of the IndexMap   *)
(* method of the same name                                                  *)

Some(v) == [st |-> "Some", v |-> v]

\* An operation's outcome: the Document afterwards and the value returned.
Outcome(d, ret) == [d |-> d, ret |-> ret]

\* Document::insert / insert_value: the previous value is returned.
insert_value(d, key, v) == Outcome(insert(d, key, v), get(d, key))

\* Document::insert_full / insert_value_full: the index of the entry and the
\* previous value are returned.
insert_value_full(d, key, v) ==
    LET after == insert(d, key, v)
    IN  Outcome(after, << IndexOf(after, key) - 1, get(d, key) >>)

\* A removal by index that shifts the later entries down.
shift_remove_index(d, index) ==
    IF index >= Len(d) THEN Outcome(d, None)
    ELSE Outcome(Take(d, index) \o Drop(d, index + 1), Some(d[index + 1]))

\* Document::swap_remove_index: the last entry takes the place of the one
\* removed; the key and the value removed are returned.
swap_remove_index(d, index) ==
    IF index >= Len(d) THEN Outcome(d, None)
    ELSE LET moved == [d EXCEPT ![index + 1] = d[Len(d)]]
         IN  Outcome(Take(moved, Len(d) - 1), Some(d[index + 1]))

\* Document::swap_remove_full: the index, the key and the value removed.
swap_remove_full(d, key) ==
    LET k == IndexOf(d, key)
    IN  IF k = 0 THEN Outcome(d, None)
        ELSE Outcome(swap_remove_index(d, k - 1).d, Some(<< k - 1, d[k][1], d[k][2] >>))

\* Document::swap_remove: the value removed.
swap_remove(d, key) ==
    LET r == swap_remove_full(d, key)
    IN  IF r.ret = None THEN r ELSE Outcome(r.d, Some(r.ret.v[3]))

\* Document::remove: IndexMap::remove, which is IndexMap::swap_remove.
remove(d, key) == swap_remove(d, key)

\* Document::pop: the last entry is removed and returned.
pop(d) ==
    IF d = <<>> THEN Outcome(d, None)
    ELSE Outcome(Take(d, Len(d) - 1), Some(d[Len(d)]))

\* Document::clear
clear(d) == Outcome(<<>>, None)

\* Document::retain, with a closure that keeps the entries whose key is in
\* keep: the entries kept stay in their order.
retain(d, keep) == Outcome(SelectSeq(d, LAMBDA e : e[1] \in keep), None)

RECURSIVE sorted_by_key(_)
\* A stable sort of the entries by key.
sorted_by_key(d) ==
    IF d = <<>> THEN <<>>
    ELSE LET rest == sorted_by_key(Tail(d))
         IN  SelectSeq(rest, LAMBDA e : KeyLess(e[1], Head(d)[1]))
             \o << Head(d) >>
             \o SelectSeq(rest, LAMBDA e : ~KeyLess(e[1], Head(d)[1]))

\* Document::sort_keys
sort_keys(d) == Outcome(sorted_by_key(d), None)

RECURSIVE insert_all(_, _)
\* The pairs inserted one after the other, as IndexMap::extend and the loop
\* of from_iter do.
insert_all(d, pairs) ==
    IF pairs = <<>> THEN d
    ELSE insert_all(insert(d, Head(pairs)[1], Head(pairs)[2]), Tail(pairs))

\* impl FromIterator<(String, Value)> for Document
from_iter(pairs) == insert_all(<<>>, pairs)

\* Document::extend: the entries of the other Document are inserted.
extend(d, other) == Outcome(insert_all(d, other), None)

\* Document::len, contains_key and get_index
doc_len(d) == Len(d)
contains_key(d, key) == IndexOf(d, key) # 0
get_index(d, index) == IF index < Len(d) THEN Some(d[index + 1]) ELSE None

\* What iterating over the Document yields: the entries in their order.
doc_iter(d) == d

-----------------------------------------------------------------------------
(* The Document under test: any sequence of insertions and removals         *)

K_e == << 101 >>
DocKeys == { K_a, K_b, K_d, K_e }
DocValues == { Int32(7), Null }

InitDoc ==
    /\ dmap = <<>>
    /\ dprev = <<>>
    /\ dcall = NoMark
    /\ dret = None
    /\ build = "release"
    /\ InitIdleCodec
    /\ InitIdleBridge
    /\ InitIdleSer

\* The operation op with the arguments args has turned dmap into r.d and
\* returned r.ret.
Called(op, args, r) ==
    /\ dprev' = dmap
    /\ dcall' = [op |-> op, args |-> args]
    /\ dmap' = r.d
    /\ dret' = r.ret
    /\ UNCHANGED << build, codecVars, bridgeVars, serVars >>

\* dmap.insert(key, v)
Insert ==
    \E key \in DocKeys, v \in DocValues :
        Called("insert", << key, v >>, insert_value(dmap, key, v))

\* dmap.insert_full(key, v)
InsertFull ==
    \E key \in DocKeys, v \in DocValues :
        Called("insert_full", << key, v >>, insert_value_full(dmap, key, v))

\* dmap.remove(key)
Remove == \E key \in DocKeys : Called("remove", << key >>, remove(dmap, key))

\* dmap.swap_remove(key)
SwapRemove == \E key \in DocKeys : Called("swap_remove", << key >>, swap_remove(dmap, key))

\* dmap.swap_remove_full(key)
SwapRemoveFull ==
    \E key \in DocKeys : Called("swap_remove_full", << key >>, swap_remove_full(dmap, key))

\* dmap.swap_remove_index(index), the index one past the end included
SwapRemoveIndex ==
    \E index \in 0..Len(dmap) :
        Called("swap_remove_index", << index >>, swap_remove_index(dmap, index))

\* dmap.pop()
Pop == Called("pop", <<>>, pop(dmap))

\* dmap.clear()
Clear == Called("clear", <<>>, clear(dmap))

\* dmap.retain(|k, _| keep.contains(k))
Retain == \E keep \in SUBSET DocKeys : Called("retain", << keep >>, retain(dmap, keep))

\* dmap.sort_keys()
SortKeys == Called("sort_keys", <<>>, sort_keys(dmap))

\* The pairs an iterator yields: none, one or two, a key twice among them.
PairSeqs ==
    LET pairs == { << k, v >> : k \in { K_a, K_e }, v \in DocValues }
    IN  { <<>> } \cup { << p >> : p \in pairs } \cup { << p, q >> : p \in pairs, q \in pairs }

\* dmap.extend(other), other a Document collected from pairs
Extend ==
    \E pairs \in PairSeqs : Called("extend", << pairs >>, extend(dmap, from_iter(pairs)))

\* dmap = pairs.into_iter().collect()
FromIter ==
    \E pairs \in PairSeqs : Called("collect", << pairs >>, Outcome(from_iter(pairs), None))

NextDoc ==
    \/ Insert \/ InsertFull \/ Remove \/ SwapRemove \/ SwapRemoveFull \/ SwapRemoveIndex
    \/ Pop \/ Clear \/ Retain \/ SortKeys \/ Extend \/ FromIter

SpecDoc == InitDoc /\ [][NextDoc]_vars

-----------------------------------------------------------------------------
(* The typed accessors called on Documents of every variant                 *)

Getters ==
    { "get_f64", "get_i32", "get_i64", "get_str", "get_array", "get_document",
      "get_bool", "get_binary", "get_object_id", "get_time_stamp",
      "get_utc_datetime" }

\* The call doc.<getter>(key).
CallGetter(getter, d, key) ==
    CASE getter = "get_f64" -> get_f64(d, key)
      [] getter = "get_i32" -> get_i32(d, key)
      [] getter = "get_i64" -> get_i64(d, key)
      [] getter = "get_str" -> get_str(d, key)
      [] getter = "get_array" -> get_array(d, key)
      [] getter = "get_document" -> get_document(d, key)
      [] getter = "get_bool" -> get_bool(d, key)
      [] getter = "get_binary" -> get_binary(d, key)
      [] getter = "get_object_id" -> get_object_id(d, key)
      [] getter = "get_time_stamp" -> get_time_stamp(d, key)
      [] getter = "get_utc_datetime" -> get_utc_datetime(d, key)

\* The values held: every variant, Binary with and without the Generic
\* subtype.
GetValues ==
    Samples \cup { Binary(Generic, << 1, 2, 3, 4 >>), Binary(UserDefined(128), << 1, 2 >>),
                   Binary(BinarySubtypeFrom(2), << 9 >>) }

\* Documents of no, one and two entries.
GetDocs ==
    { <<>> }
    \cup { << << k, v >> >> : k \in { K_a, K_b }, v \in GetValues }
    \cup { << << K_a, v >>, << K_b, w >> >> : v \in GetValues, w \in Fillers }
    \cup { << << K_b, w >>, << K_a, v >> >> : v \in GetValues, w \in Fillers }

InitGet ==
    /\ dmap \in GetDocs
    /\ dprev = <<>>
    /\ dcall = NoMark
    /\ dret = None
    /\ build = "release"
    /\ InitIdleCodec
    /\ InitIdleBridge
    /\ InitIdleSer

\* dmap.<getter>(key), for a key that may be absent
Get ==
    /\ dcall = NoMark
    /\ \E getter \in Getters, key \in { K_a, K_b, K_d } :
        /\ dcall' = [op |-> getter, args |-> << key >>]
        /\ dret' = CallGetter(getter, dmap, key)
        /\ dprev' = dmap
    /\ UNCHANGED << dmap, build, codecVars, bridgeVars, serVars >>

NextGet == Get

SpecGet == InitGet /\ [][NextGet]_vars

-----------------------------------------------------------------------------
(* The JSON tree (serde_json::Value) and the conversions of src/src/value.rs *)

JNull == [j |-> "Null"]
JBool(b) == [j |-> "Bool", b |-> b]
JString(s) == [j |-> "String", s |-> s]
JArray(a) == [j |-> "Array", a |-> a]
JObject(o) == [j |-> "Object", o |-> o]

\* serde_json::Number: PosInt(u64), NegInt(i64) or Float(f64), the 64 bits
\* as 8 little-endian bytes.
JNumber(kind, bits) == [j |-> "Number", kind |-> kind, bits |-> bits]

\* Number::from of an i64: a value below zero is a NegInt, any other a PosInt.
NumberOfI64(bits) == JNumber(IF IsNegative(bits) THEN "NegInt" ELSE "PosInt", bits)

\* An f64 that is an infinity or a NaN: the 11 exponent bits are all set.
NotFinite(f) == f[8] % 128 = 127 /\ f[7] >= 240

\* Number::from_f64, and Null for an f64 that is not finite.
NumberOfF64(f) == IF NotFinite(f) THEN JNull ELSE JNumber("Float", f)

\* serde_json::Map::insert: the entries are kept sorted by key, the value of
\* a present key is replaced.
MapInsert(o, key, v) ==
    LET before == SelectSeq(o, LAMBDA e : KeyLess(e[1], key))
        after == SelectSeq(o, LAMBDA e : KeyLess(key, e[1]))
    IN  before \o << << key, v >> >> \o after

RECURSIVE to_value(_)
\* serde_json::to_value (the json! macro applied to an expression): the tree
\* serde_json's serializer builds from the calls x.
to_value(x) ==
    CASE x.k = "f64" -> NumberOfF64(x.f)
      [] x.k = "str" -> JString(x.s)
      [] x.k = "bool" -> JBool(x.b)
      [] x.k = "unit" -> JNull
      [] x.k = "i32" -> NumberOfI64(I64FromI32(x.n))
      [] x.k = "i64" -> NumberOfI64(x.w)
      [] x.k = "seq" -> JArray([n \in 1..Len(x.items) |-> to_value(x.items[n])])
      [] x.k = "map" ->
            LET Fill[n \in 0..Len(x.pairs)] ==
                    IF n = 0 THEN <<>>
                    ELSE MapInsert(Fill[n - 1], x.pairs[n][1].s, to_value(x.pairs[n][2]))
            IN  JObject(Fill[Len(x.pairs)])

\* json!({ k1: v1 }) and json!({ k1: v1, k2: v2 })
Json1(k1, v1) == JObject(MapInsert(<<>>, k1, v1))
Json2(k1, v1, k2, v2) == JObject(MapInsert(MapInsert(<<>>, k1, v1), k2, v2))

K_scope_bare == << 115, 99, 111, 112, 101 >>    \* "scope"

\* a & 0x0000_FFFF on an i64
Low16(a) == Take(a, 2) \o << 0, 0, 0, 0, 0, 0 >>

\* impl Into<serde_json::Value> for Value (Value::to_json)
to_json(v) ==
    CASE v.t \in { "Double", "String", "Array", "Document", "Boolean" } -> to_value(ValueTree(v))
      [] v.t = "Null" -> JNull
      [] v.t = "RegExp" -> Json2(K_regex, JString(v.pat), K_options, JString(v.opt))
      [] v.t = "JavaScriptCode" -> Json1(K_code, JString(v.code))
      [] v.t = "JavaScriptCodeWithScope" ->
            Json2(K_code, JString(v.code), K_scope_bare, to_value(ValueTree(Document(v.scope))))
      [] v.t = "Int32" -> NumberOfI64(I64FromI32(v.i32))
      [] v.t = "Int64" -> NumberOfI64(v.i64)
      [] v.t = "TimeStamp" ->
            Json2(K_t, NumberOfI64(Shr32(v.ts)), K_i, NumberOfI64(Low16(v.ts)))
      [] v.t = "Binary" ->
            Json2(K_type, JNumber("PosInt", I64FromI32(BinarySubtypeTag(v.subtype))),
                  K_binary, JString(to_hex(v.data)))
      [] v.t = "ObjectId" -> Json1(K_oid, JString(to_hex(v.oid)))
      [] v.t = "UTCDatetime" ->
            Json1(K_date, Json1(K_numberLong, NumberOfI64(I64FromI32(DatetimeMillis(v)))))
      [] v.t = "Symbol" -> Json1(K_symbol, JString(v.sym))

\* The Number arm of From<serde_json::Value>: as_i64, else as_u64, else
\* as_f64. A PosInt above i64::MAX is no i64; as a u64 it is cast to i64.
FromNumber(x) ==
    IF x.kind = "Float" THEN Double(x.bits) ELSE Int64(x.bits)

\* The first outcome of rs that is no value, if there is one.
FirstFailure(rs) ==
    LET bad == { n \in 1..Len(rs) : rs[n].st # "Ok" }
    IN  rs[CHOOSE n \in bad : \A m \in bad : n <= m]

RECURSIVE from_json(_, _)
\* impl From<serde_json::Value> for Value (Value::from_json)
from_json(a, profile) ==
    CASE a.j = "Number" -> Returned(FromNumber(a))
      [] a.j = "String" -> Returned(String(a.s))
      [] a.j = "Bool" -> Returned(Boolean(a.b))
      [] a.j = "Null" -> Returned(Null)
      [] a.j = "Array" ->
            LET rs == [n \in 1..Len(a.a) |-> from_json(a.a[n], profile)]
            IN  IF \E n \in 1..Len(rs) : rs[n].st # "Ok" THEN FirstFailure(rs)
                ELSE Returned(Array([n \in 1..Len(rs) |-> rs[n].v]))
      [] a.j = "Object" ->
            LET rs == [n \in 1..Len(a.o) |-> from_json(a.o[n][2], profile)]
                Collect[n \in 0..Len(rs)] ==
                    IF n = 0 THEN <<>> ELSE insert(Collect[n - 1], a.o[n][1], rs[n].v)
            IN  IF \E n \in 1..Len(rs) : rs[n].st # "Ok" THEN FirstFailure(rs)
                ELSE from_extended_document(Collect[Len(rs)], profile)

\* f64's ==: a NaN equals nothing, the two zeros equal each other.
F64Eq(f, g) ==
    LET IsNaN(x) == NotFinite(x) /\ (x[7] % 16 # 0 \/ \E n \in 1..6 : x[n] # 0)
        IsZero(x) == x[8] % 128 = 0 /\ \A n \in 1..7 : x[n] = 0
    IN  ~IsNaN(f) /\ ~IsNaN(g) /\ (f = g \/ (IsZero(f) /\ IsZero(g)))

\* An equality that holds of two Values only when they are the same, the
\* entries of their Documents in the same order.
ValueIdentical(v, w) == v = w

RECURSIVE ValueEq(_, _)
\* Value's derived ==. Two Documents are equal when they hold equal values
\* under the same keys, in whatever order (IndexMap's ==).
ValueEq(v, w) ==
    LET DocEq(d, e) ==
            /\ Len(d) = Len(e)
            /\ \A n \in 1..Len(d) :
                   /\ IndexOf(e, d[n][1]) > 0
                   /\ ValueEq(d[n][2], e[IndexOf(e, d[n][1])][2])
    IN  /\ v.t = w.t
        /\ CASE v.t = "Double" -> F64Eq(v.f, w.f)
             [] v.t = "Array" ->
                    /\ Len(v.a) = Len(w.a)
                    /\ \A n \in 1..Len(v.a) : ValueEq(v.a[n], w.a[n])
             [] v.t = "Document" -> DocEq(v.d, w.d)
             [] v.t = "JavaScriptCodeWithScope" -> v.code = w.code /\ DocEq(v.scope, w.scope)
             [] OTHER -> v = w

\* Document's derived ==: the == of the IndexMap inside.
document_eq(d, e) == ValueEq(Document(d), Document(e))

-----------------------------------------------------------------------------
(* A Value taken to JSON and back                                           *)

JsonValues ==
    Samples \cup Exotics \cup
    { Int64(<< 2, 0, 0, 0, 0, 0, 0, 0 >>),
      Double(<< 0, 0, 0, 0, 0, 0, 8, 64 >>),
      Double(<< 0, 0, 0, 0, 0, 0, 240, 127 >>),
      Array(<< Int64(<< 2, 0, 0, 0, 0, 0, 0, 0 >>), Symbol(K_a),
               Binary(Generic, << 1, 2, 3, 4 >>) >>),
      Document(<< << K_b, Int64(<< 2, 0, 0, 0, 0, 0, 0, 0 >>) >>,
                  << K_a, Binary(Generic, << 1, 2, 3, 4 >>) >>,
                  << K_d, String(S_hi) >> >>),
      Document(<< << K_a, JavaScriptCodeWithScope(S_hi, << << K_a, Null >> >>) >> >>),
      Document(<< << K_d, ObjectId(<< 1, 2, 3, 4, 5, 6, 7, 8, 9, 10, 11, 12 >>) >>,
                  << K_a, Array(<< UTCDatetime(1, 2000000), RegExp(K_a, <<>>) >>) >> >>) }

InitJson ==
    /\ val \in JsonValues
    /\ build \in { "debug", "release" }
    /\ ext = None
    /\ back = None
    /\ bstep = "start"
    /\ InitIdleCodec
    /\ InitIdleSer
    /\ InitIdleDoc

\* val.to_json()
ToJson ==
    /\ bstep = "start"
    /\ ext' = to_json(val)
    /\ bstep' = "json"
    /\ UNCHANGED << val, back >>
    /\ UNCHANGED << build, codecVars, serVars, docVars >>

\* Value::from_json(ext)
FromJson ==
    /\ bstep = "json"
    /\ back' = from_json(ext, build)
    /\ bstep' = "backjson"
    /\ UNCHANGED << val, ext >>
    /\ UNCHANGED << build, codecVars, serVars, docVars >>

NextJson == ToJson \/ FromJson

SpecJson == InitJson /\ [][NextJson]_vars

-----------------------------------------------------------------------------
(* The decoder run one loop iteration at a time: the loops of                *)
(* decode_document and decode_array, a frame of the stack for each call      *)

Frame(kind, n) == [kind |-> kind, n |-> n]

\* What one iteration of the loop of the frame top does with the bytes b from
\* pos on: it fails, it reads the 0x00 that ends the loop ("leave"), it reads
\* an element whose payload is a document or an array and calls the decoder
\* of it ("enter", after the length prefix and, for a code with scope, the
\* code), or it reads an element of any other type ("element").
Iteration(b, pos, top) ==
    LET tag == read_u8(b, pos)
    IN  IF tag.st # "Ok" THEN [kind |-> "fail", r |-> tag]
        ELSE IF tag.v = 0 THEN [kind |-> "leave", pos |-> tag.pos]
        ELSE
        LET key == read_cstring(b, tag.pos)
        IN  IF key.st # "Ok" THEN [kind |-> "fail", r |-> key]
            ELSE IF top.kind = "array"
                    /\ LET idx == parse_usize(key.v) IN ~idx.ok \/ idx.v # top.n
            THEN [kind |-> "fail", r |-> Err(InvalidArrayKey(top.n, key.v), key.pos)]
            ELSE IF ElementTypeFrom(tag.v) \in { "Document", "Array" }
            THEN LET len == read_i32(b, key.pos)
                 IN  IF len.st # "Ok" THEN [kind |-> "fail", r |-> len]
                     ELSE [kind |-> "enter", pos |-> len.pos,
                           frame |-> Frame(IF ElementTypeFrom(tag.v) = "Array"
                                           THEN "array" ELSE "document", 0)]
            ELSE IF ElementTypeFrom(tag.v) = "JavaScriptCodeWithScope"
            THEN LET len == read_i32(b, key.pos)
                 IN  IF len.st # "Ok" THEN [kind |-> "fail", r |-> len]
                     ELSE
                     LET code == read_string(b, len.pos)
                     IN  IF code.st # "Ok" THEN [kind |-> "fail", r |-> code]
                         ELSE
                         LET scope == read_i32(b, code.pos)
                         IN  IF scope.st # "Ok" THEN [kind |-> "fail", r |-> scope]
                             ELSE [kind |-> "enter", pos |-> scope.pos,
                                   frame |-> Frame("document", 0)]
            ELSE LET v == decode_bson(b, key.pos, tag.v)
                 IN  IF v.st # "Ok" THEN [kind |-> "fail", r |-> v]
                     ELSE [kind |-> "element", pos |-> v.pos]

\* The documents whose encodings are run: one entry of any sample value.
RunDocs == { << << k, v >> >> : k \in FirstKeys, v \in Samples }

\* Bytes an input byte is overwritten with: the end of a loop, and the tags
\* of a document, an array and a code with scope.
RunBytes == { 0, 3, 4, 15 }

\* The inputs: the encodings, every prefix of them, and every one of them
\* with one byte overwritten.
RunInputs ==
    UNION { LET b == encode_document(d)
            IN  { Take(b, n) : n \in 0..Len(b) }
                \cup { [b EXCEPT ![at] = byte] : at \in 1..Len(b), byte \in RunBytes }
          : d \in RunDocs }

\* The iteration now running.
Now == Iteration(wire, mark.pos, mark.stack[Len(mark.stack)])

\* The frame on top with one element more.
Counted(stack) == [stack EXCEPT ![Len(stack)].n = @ + 1]

InitRun ==
    /\ wire = <<>>
    /\ doc = <<>>
    /\ decoded = None
    /\ step = "idle"
    /\ mark = [op |-> "Run", pos |-> 0, stack |-> <<>>, iters |-> 0]
    /\ ticks = 0
    /\ build = "release"
    /\ InitIdleBridge
    /\ InitIdleSer
    /\ InitIdleDoc

\* decode_document is called on a reader over one of the inputs.
Call ==
    /\ step = "idle"
    /\ wire' \in RunInputs
    /\ step' = "called"
    /\ UNCHANGED << doc, decoded, mark >>
    /\ ticks' = ticks + 1
    /\ UNCHANGED << build, bridgeVars, serVars, docVars >>

\* The first statements of decode_document: the length is read and the loop
\* begins.
Begin ==
    /\ step = "called"
    /\ LET len == read_i32(wire, 0)
       IN  IF len.st # "Ok"
           THEN /\ decoded' = [st |-> len.st, err |-> len.err]
                /\ step' = "returned"
                /\ mark' = mark
           ELSE /\ mark' = [mark EXCEPT !.pos = len.pos, !.stack = << Frame("document", 0) >>]
                /\ step' = "looping"
                /\ decoded' = decoded
    /\ UNCHANGED << doc, wire >>
    /\ ticks' = ticks + 1
    /\ UNCHANGED << build, bridgeVars, serVars, docVars >>

\* An iteration that reads an element which is no document and no array.
ReadElement(now) ==
    /\ now.kind = "element"
    /\ mark' = [mark EXCEPT !.pos = now.pos, !.stack = Counted(mark.stack),
                            !.iters = @ + 1]
    /\ UNCHANGED << decoded, step >>

\* An iteration that reads the head of a nested document or array and calls
\* its decoder.
EnterNested(now) ==
    /\ now.kind = "enter"
    /\ mark' = [mark EXCEPT !.pos = now.pos, !.stack = Append(mark.stack, now.frame),
                            !.iters = @ + 1]
    /\ UNCHANGED << decoded, step >>

\* An iteration that reads the 0x00 ending a nested loop: the call returns
\* and its value is one element more of the caller's.
LeaveNested(now) ==
    /\ now.kind = "leave"
    /\ Len(mark.stack) > 1
    /\ mark' = [mark EXCEPT !.pos = now.pos,
                            !.stack = Counted(Take(mark.stack, Len(mark.stack) - 1)),
                            !.iters = @ + 1]
    /\ UNCHANGED << decoded, step >>

\* The iteration that reads the 0x00 ending the outermost loop:
\* decode_document returns Ok.
Return(now) ==
    /\ now.kind = "leave"
    /\ Len(mark.stack) = 1
    /\ mark' = [mark EXCEPT !.pos = now.pos, !.iters = @ + 1]
    /\ decoded' = [st |-> "Ok", pos |-> now.pos]
    /\ step' = "returned"

\* An iteration that fails: the error goes up through every call.
Fail(now) ==
    /\ now.kind = "fail"
    /\ mark' = [mark EXCEPT !.iters = @ + 1]
    /\ decoded' = IF now.r.st = "Err" THEN [st |-> "Err", err |-> now.r.err]
                  ELSE [st |-> now.r.st]
    /\ step' = "returned"

\* One iteration of the loop of the call on top of the stack.
Iterate ==
    /\ step = "looping"
    /\ \E now \in { Now } :
          \/ ReadElement(now)
          \/ EnterNested(now)
          \/ LeaveNested(now)
          \/ Return(now)
          \/ Fail(now)
    /\ ticks' = ticks + 1
    /\ UNCHANGED << doc, wire >>
    /\ UNCHANGED << build, bridgeVars, serVars, docVars >>

NextRun == Call \/ Begin \/ Iterate

\* The call takes a step: every action of NextRun is such a step.
Running == step # "returned" /\ ticks' = ticks + 1

\* Before the return one of the actions of NextRun can be taken, so that a
\* step of the call can be taken exactly when Running can.
RunCanStep ==
    /\ step \in { "idle", "called", "looping", "returned" }
    /\ step = "looping" =>
          /\ Len(mark.stack) >= 1
          /\ \E now \in { Now } : now.kind \in { "element", "enter", "leave", "fail" }

\* The call is not suspended: the thread that is in decode_document goes on
\* to its next step as long as the call has not returned.
SpecRun == InitRun /\ [][NextRun]_vars /\ WF_ticks(Running)

\* The run, when it has returned, returned what decode_document returns.
RunAgrees ==
    step = "returned" =>
        LET r == decode_document(wire, 0)
        IN  /\ decoded.st = r.st
            /\ r.st = "Err" => decoded.err = r.err
            /\ r.st = "Ok" => decoded.pos = r.pos

-----------------------------------------------------------------------------
(* Claims about the codec                                                   *)

\* The decoder was handed the encoding of doc as the encoder wrote it.
DecodedAsWritten == step = "decoded" /\ mark = NoMark

\* C1: Round-trip. Decoding the encoding of any document succeeds and gives
\* the same entries, in the same order, with structurally equal values.
C1_RoundTrip ==
    DecodedAsWritten => decoded.st = "Ok" /\ decoded.v = doc

\* The entries of the encoding of doc that hold a document or an array, at
\* any depth: where the encoding of each starts and how many bytes it has.
RECURSIVE ContainersOfEntries(_, _), ContainersOfValue(_, _)
ContainersOfEntries(entries, base) ==
    IF entries = <<>> THEN {}
    ELSE LET e == Head(entries)
         IN  ContainersOfValue(e[2], base + 1 + Len(e[1]) + 1)
                \cup ContainersOfEntries(Tail(entries), base + Len(encode_bson(e[1], e[2])))

ContainersOfValue(v, base) ==
    CASE v.t = "Document" ->
            { [at |-> base + 1, size |-> Len(encode_document(v.d))] }
                \cup ContainersOfEntries(v.d, base + 4)
      [] v.t = "Array" ->
            { [at |-> base + 1, size |-> Len(encode_array(v.a))] }
                \cup ContainersOfEntries(ArrayEntries(v.a), base + 4)
      [] v.t = "JavaScriptCodeWithScope" ->
            LET sbase == base + 4 + Len(write_string(v.code))
            IN  { [at |-> sbase + 1, size |-> Len(encode_document(v.scope))] }
                    \cup ContainersOfEntries(v.scope, sbase + 4)
      [] OTHER -> {}

Containers(d) == { [at |-> 1, size |-> Len(encode_document(d))] } \cup ContainersOfEntries(d, 4)

\* C2: Length prefix. The first 4 bytes of the encoding of the document, and
\* of every document and array nested in it, are the little-endian int32 of
\* the number of bytes of that encoding, the prefix and the terminating 0x00
\* included; the encoding ends with the 0x00.
C2_LengthPrefix ==
    step = "encoded" =>
        /\ I32Of(Take(wire, 4)) = Len(wire)
        /\ \A c \in Containers(doc) :
              /\ c.at + c.size - 1 <= Len(wire)
              /\ I32Of(SubSeq(wire, c.at, c.at + 3)) = c.size
              /\ wire[c.at + c.size - 1] = 0

\* C2's case: an encoded document that holds a non-empty array and more.
C2_Witness ==
    /\ step = "encoded"
    /\ Len(doc) = 2
    /\ doc[1][2].t = "Array" /\ Len(doc[1][2].a) = 3
    /\ Cardinality(Containers(doc)) >= 2

\* The decoder was handed an array whose elements carry the keys of doc.
DecodedKeyedArray == step = "decoded" /\ mark.op = "KeyedArray" /\ EntriesNulFree(doc)

\* The 0-based positions of the entries of d whose key is not the decimal
\* string of the position.
WrongKeys(d) == { n \in 0..(Len(d) - 1) : d[n + 1][1] # ToDecimal(n) }

\* The least number of a non-empty set of numbers.
Least(S) == CHOOSE n \in S : \A m \in S : n <= m

\* C3: Array index integrity. An array whose n-th key is anything other than
\* the decimal string of n fails with InvalidArrayKey(n, key); an array is
\* accepted only when its keys are exactly "0", "1", "2", ... in order.
C3_ArrayIndexIntegrity ==
    DecodedKeyedArray =>
        IF WrongKeys(doc) = {}
        THEN decoded.st = "Ok"
        ELSE LET n == Least(WrongKeys(doc))
             IN  /\ decoded.st = "Err"
                 /\ decoded.err = InvalidArrayKey(n, doc[n + 1][1])

\* The bytes before position at were written for well-formed cstrings, so
\* the decoder reads the field at the position the encoder wrote it.
TamperedField(op) == step = "decoded" /\ mark.op = op /\ EntriesNulFree(doc)

\* C4: Length bound. A string whose declared length is 0, negative or above
\* 16 MiB fails with InvalidLength, the reader standing right after the 4
\* length bytes: no content byte was read.
C4_LengthBound ==
    (TamperedField("SetLength") /\ (mark.len < 1 \/ mark.len > MAX_BSON_SIZE)) =>
        decoded = Err(InvalidLength(I64FromI32(mark.len)), mark.at + 3)

\* C4's case: a declared length of 2000000000 was decoded.
C4_Witness ==
    /\ TamperedField("SetLength")
    /\ mark.len = 2000000000
    /\ Len(doc) = 2
    /\ decoded.st = "Err"

\* C5: All-or-nothing decode. Every proper prefix of the encoding of a
\* document (of well-formed cstrings) decodes to the I/O error, never to a
\* document.
C5_AllOrNothing ==
    TamperedField("Truncate") => decoded.st = "Err" /\ decoded.err = IoError

\* C5's case: the encoding was cut inside the payload of its second element.
C5_Witness ==
    /\ TamperedField("Truncate")
    /\ Len(doc) = 2
    /\ doc[2][2].t = "String"
    /\ mark.n = Len(encode_document(doc)) - 3
    /\ decoded.st = "Err"

\* C6: Reserved and unknown tags. An element whose tag is reserved or no
\* element type stops the decoding with UnrecognizedElementType(tag), the
\* reader standing right after the element's key: the element is not
\* skipped and nothing after it is decoded, at any depth.
C6_UnrecognizedTag ==
    TamperedField("SetTag") =>
        decoded = Err(UnrecognizedElementType(mark.tag), FindNul(wire, mark.at))

\* C6's case: a reserved tag two documents deep, with an element after it.
C6_Witness ==
    /\ TamperedField("SetTag")
    /\ mark.tag \in ReservedTags
    /\ Len(doc) = 2
    /\ doc[1][2].t = "Document"
    /\ mark.at > 4 + 1 + Len(doc[1][1]) + 1 + 4 + 1
    /\ mark.at < Len(encode_bson(doc[1][1], doc[1][2]))
    /\ decoded.st = "Err"

\* floor(m / 1000) and m mod 1000, for a millisecond count m.
FloorSecs(m) == m \div 1000
FloorMillis(m) == m % 1000

\* C9: UTCDatetime decode. The instant decoded from the millisecond count m
\* has seconds floor(m / 1000) and a nanosecond field (m mod 1000) * 1_000_000,
\* which lies in 0 .. 999_999_999, for negative m too.
C9_DatetimeDecode ==
    (DecodedAsWritten /\ Len(doc) >= 1 /\ doc[1][1] = K_a /\ doc[1][2].t = "UTCDatetime") =>
        LET m == DatetimeMillis(doc[1][2])
        IN  /\ decoded.st = "Ok"
            /\ decoded.v[1][2].secs = FloorSecs(m)
            /\ decoded.v[1][2].nanos = FloorMillis(m) * 1000000
            /\ decoded.v[1][2].nanos < 1000000000

-----------------------------------------------------------------------------
(* Claims about the extended-document bridge                                *)

\* val went to its extended document and back.
WentBack == bstep = "back" /\ val \in Exotics

\* C7: Extended round-trip. For every Value v of an exotic variant,
\* from_extended_document(to_extended_document(v)) returns v.
C7_ExtendedRoundTrip ==
    WentBack => back = Returned(val)

\* C8: Timestamp pair is lossless. A timestamp split into its two halves and
\* recombined, through the int32 shape or the int64 shape, is the timestamp,
\* whatever the top bit of either half.
C8_TimeStampPair ==
    (val.t = "TimeStamp" /\ bstep \in { "back", "back64" }) =>
        (back.st = "Ok" /\ back.v = val)

-----------------------------------------------------------------------------
(* Claims about the serializer                                              *)

IsUnsigned(x) == x.k \in { "u8", "u16", "u32", "u64" }

RECURSIVE ContainsUnsigned(_)
\* Whether a u8, u16, u32 or u64 is serialized anywhere in x.
ContainsUnsigned(x) ==
    CASE IsUnsigned(x) -> TRUE
      [] x.k \in { "some", "newtype_struct", "newtype_variant" } -> ContainsUnsigned(x.inner)
      [] x.k \in { "seq", "tuple", "tuple_struct", "tuple_variant" } ->
            \E n \in 1..Len(x.items) : ContainsUnsigned(x.items[n])
      [] x.k = "map" ->
            \E n \in 1..Len(x.pairs) :
                ContainsUnsigned(x.pairs[n][1]) \/ ContainsUnsigned(x.pairs[n][2])
      [] x.k \in { "struct", "struct_variant" } ->
            \E n \in 1..Len(x.fields) : ContainsUnsigned(x.fields[n][2])
      [] OTHER -> FALSE

RECURSIVE Signed(_)
\* x with an i32 in the place of every unsigned integer.
Signed(x) ==
    CASE IsUnsigned(x) -> TI32(0)
      [] x.k \in { "some", "newtype_struct", "newtype_variant" } ->
            [x EXCEPT !.inner = Signed(x.inner)]
      [] x.k \in { "seq", "tuple", "tuple_struct", "tuple_variant" } ->
            [x EXCEPT !.items = [n \in 1..Len(x.items) |-> Signed(x.items[n])]]
      [] x.k = "map" ->
            [x EXCEPT !.pairs = [n \in 1..Len(x.pairs) |->
                                    << Signed(x.pairs[n][1]), Signed(x.pairs[n][2]) >>]]
      [] x.k \in { "struct", "struct_variant" } ->
            [x EXCEPT !.fields = [n \in 1..Len(x.fields) |->
                                    << x.fields[n][1], Signed(x.fields[n][2]) >>]]
      [] OTHER -> x

\* C10: Unsigned rejection. to_bson of a typed value that holds a u8, u16,
\* u32 or u64 anywhere (itself, a struct field, a sequence or tuple element,
\* a map value, an enum payload) never returns a Value; and when the value
\* would serialize with signed integers in their place, the result is the
\* error UnsupportedUnsignedType.
C10_UnsignedRejection ==
    (sstep = "done" /\ ContainsUnsigned(sval)) =>
        /\ sres.st # "Ok"
        /\ (to_bson(Signed(sval), build).st = "Ok"
                => sres = Failed(UnsupportedUnsignedType))

\* C10's case: a u64 that is a field of a struct that is an element of a
\* sequence.
C10_Witness ==
    /\ sstep = "done"
    /\ sval = TSeq(<< TI32(7), TStruct(<< << K_b, TBool(TRUE) >>,
                                           << K_a, TU64(<< 255, 255, 255, 255, 255, 255, 255, 255 >>) >> >>) >>)
    /\ to_bson(Signed(sval), build).st = "Ok"
    /\ sres = Failed(UnsupportedUnsignedType)

\* The content s of a string written from the position first on, as it is
\* decoded once the byte at the position at is replaced.
LossyString(s, first, at, byte) ==
    IF at >= first /\ at < first + Len(s)
    THEN from_utf8_lossy([s EXCEPT ![at - first + 1] = byte])
    ELSE s

RECURSIVE LossyEntries(_, _, _, _), LossyValue(_, _, _, _)
\* The entries written after base bytes, the string that holds the position
\* at decoded lossily with that byte replaced, every other value as it is.
LossyEntries(entries, base, at, byte) ==
    IF entries = <<>> THEN <<>>
    ELSE LET e == Head(entries)
         IN  << << e[1], LossyValue(e[2], base + 1 + Len(e[1]) + 1, at, byte) >> >>
                \o LossyEntries(Tail(entries), base + Len(encode_bson(e[1], e[2])), at, byte)

LossyValue(v, base, at, byte) ==
    CASE v.t = "String" -> String(LossyString(v.s, base + 5, at, byte))
      [] v.t = "JavaScriptCode" -> JavaScriptCode(LossyString(v.code, base + 5, at, byte))
      [] v.t = "Symbol" -> Symbol(LossyString(v.sym, base + 5, at, byte))
      [] v.t = "Document" -> Document(LossyEntries(v.d, base + 4, at, byte))
      [] v.t = "Array" ->
            LET es == LossyEntries(ArrayEntries(v.a), base + 4, at, byte)
            IN  Array([n \in 1..Len(es) |-> es[n][2]])
      [] v.t = "JavaScriptCodeWithScope" ->
            JavaScriptCodeWithScope(
                LossyString(v.code, base + 9, at, byte),
                LossyEntries(v.scope, base + 4 + Len(write_string(v.code)) + 4, at, byte))
      [] OTHER -> v

\* The bytes before one of them was replaced.
WireBefore == [wire EXCEPT ![mark.at] = mark.was]

\* C16: UTF-8 strictness asymmetry. In bytes that decode to a document, a
\* byte that is no UTF-8 put into a null-terminated string (a key, a RegExp
\* pattern or options) makes decoding fail with FromUtf8Error; put into the
\* content of a length-prefixed string it never makes decoding fail: the
\* document decoded is the one the bytes stood for, that string replaced by
\* the lossy decoding of its content.
C16_Utf8Asymmetry ==
    (TamperedField("SetByte") /\ decode_document(WireBefore, 0).st = "Ok") =>
        IF mark.kind = "cstr"
        THEN decoded.st = "Err" /\ decoded.err = FromUtf8Error
        ELSE /\ decoded.st = "Ok"
             /\ decoded.v = LossyEntries(decode_document(WireBefore, 0).v, 4, mark.at, mark.byte)

\* C16's case: the second byte of the String "hi" replaced by 0xFF, decoded
\* as "h" and U+FFFD.
C16_Witness ==
    /\ TamperedField("SetByte")
    /\ mark.kind = "content"
    /\ mark.byte = 255
    /\ doc[1][2] = String(S_hi)
    /\ decoded.st = "Ok"
    /\ decoded.v[1][2] = String(<< 104, 239, 191, 189 >>)

\* The bytes before a length prefix was overwritten.
WireBeforePrefix == Take(wire, mark.at - 1) \o mark.was \o Drop(wire, mark.at + 3)

\* C21: The decoder never uses a declared length as a parsing bound. Bytes
\* (the encoding of a document of well-formed cstrings, so that the place
\* overwritten is a length prefix to the decoder too) that differ only in the
\* length prefix of a document, of an array or of a
\* code with scope decode to the same result, the same Document or the same
\* error, the reader at the same place.
C21_LengthDisregarded ==
    TamperedField("SetPrefix") =>
        decoded = decode_document(WireBeforePrefix, 0)

\* C21's case: the prefix of an array inside the document was set to -1 and
\* the document decoded as it was written.
C21_Witness ==
    /\ TamperedField("SetPrefix")
    /\ mark.len = -1
    /\ mark.at > 1
    /\ Len(doc) = 1
    /\ doc[1][2].t = "Array"
    /\ Len(doc[1][2].a) = 3
    /\ decoded.st = "Ok"
    /\ decoded.v = doc

\* Whether key is the decimal string of n: digits only, no leading zero,
\* of the value n.
IsDecimalOf(key, n) ==
    /\ key # <<>>
    /\ AllDigits(key)
    /\ Len(key) > 1 => key[1] # 48
    /\ DecimalValue(key) = n

\* Whether the bytes written for the Array a are n elements under the
\* decimal strings of 0..n-1, each the tag and payload of its element: the
\* bytes read as a document give those keys, and the elements written under
\* those keys are the bytes.
KeysFromPositions(a) ==
    LET written == decode_document(encode_array(a), 0)
    IN  /\ written.st = "Ok"
        /\ Len(written.v) = Len(a)
        /\ \A n \in 1..Len(a) : IsDecimalOf(written.v[n][1], n - 1)
        /\ encode_array(a) =
               encode_document([n \in 1..Len(a) |-> << written.v[n][1], a[n] >>])

\* C22: Array encoding synthesizes keys from positions. An Array of n
\* elements is written as n elements under the decimal strings of 0..n-1 in
\* ascending order, each with the tag and payload of its element; decoding
\* it never fails with InvalidArrayKey and gives the same elements in the
\* same order.
C22_ArrayKeysFromPositions ==
    (DecodedAsWritten /\ EntriesNulFree(doc)) =>
        \A n \in 1..Len(doc) :
            doc[n][2].t = "Array" =>
                /\ KeysFromPositions(doc[n][2].a)
                /\ decoded.st = "Ok"
                /\ decoded.v[n] = doc[n]

\* C22's case: an Array of eleven elements, the last under the key "10".
C22_Witness ==
    /\ DecodedAsWritten
    /\ Len(doc) = 2
    /\ doc[1][2].t = "Array"
    /\ Len(doc[1][2].a) = 11
    /\ decoded.st = "Ok"
    /\ decoded.v[1][2].a[11] = Int32(7)

\* C23: Decoding never aborts. Whatever the bytes, as written or tampered
\* with, a Binary with a negative or an oversized declared length among
\* them, decode_document returns a Document or a DecodeError and never
\* panics.
C23_NeverAborts ==
    step = "decoded" => decoded.st # "Panic"

\* C24: Decoding terminates. On every input decode_document eventually
\* returns; before it returns a step can always be taken; every iteration of
\* the loops that does not return an error consumes at least one byte; and
\* there are never more calls on the stack than bytes in the input.
C24_DecodingTerminates ==
    /\ <>(step = "returned")
    /\ []RunCanStep
    /\ [][step = "looping" => (step' = "returned" \/ mark'.pos > mark.pos)]_vars
    /\ [](Len(mark.stack) <= Len(wire))

\* C24's case: the call returned a document after six iterations or more.
C24_Witness ==
    /\ step = "returned"
    /\ decoded.st = "Ok"
    /\ mark.iters >= 6
    /\ mark.pos = Len(wire)

\* C28: The two encoders agree. For the Document that encode_document has
\* encoded, to_vec returns exactly the bytes encode_document wrote, and
\* encode writes those bytes to its writer.
C28_EncodersAgree ==
    step = "encoded" =>
        /\ Document_to_vec(doc) = wire
        /\ Document_encode(<<>>, doc) = wire
        /\ Document_encode(wire, doc) = wire \o Document_to_vec(doc)

\* C28's case: a Document of two entries, a nested Document in the first,
\* was encoded.
C28_Witness ==
    /\ step = "encoded"
    /\ Len(doc) = 2
    /\ doc[1][2].t = "Document"
    /\ Len(doc[1][2].d) = 2
    /\ Document_to_vec(doc) = wire

\* What decode_document returns for the one element of the entry e.
DecodedAlone(e) == decode_document(encode_document(<< e >>), 0)

\* The positions in entries at which a key occurs for the first time.
FirstOccurrences(entries) ==
    { n \in 1..Len(entries) : \A m \in 1..(n - 1) : entries[m][1] # entries[n][1] }

\* The position in entries at which the key occurs for the last time.
LastOccurrence(entries, key) ==
    CHOOSE n \in 1..Len(entries) :
        /\ entries[n][1] = key
        /\ \A m \in (n + 1)..Len(entries) : entries[m][1] # key

\* C26: Duplicate keys on the wire. When the bytes hold a key twice, every
\* key and string is the cstring written for it and each element decodes,
\* decode_document succeeds; the Document holds each key
\* once, at the rank of the key's first occurrence among the first
\* occurrences, with the value of the key's last occurrence; it has as many
\* entries as there are distinct keys; and its encoding is not the input.
C26_DuplicateKeysOnTheWire ==
    (/\ step = "decoded"
     /\ mark.op = "RepeatKey"
     /\ EntriesNulFree(mark.entries)
     /\ \A n \in 1..Len(mark.entries) : DecodedAlone(mark.entries[n]).st = "Ok") =>
        LET es == mark.entries
            rank(n) == Cardinality({ m \in FirstOccurrences(es) : m <= n })
        IN  /\ decoded.st = "Ok"
            /\ Len(decoded.v) = Cardinality({ es[n][1] : n \in 1..Len(es) })
            /\ Len(decoded.v) < Len(es)
            /\ \A n \in FirstOccurrences(es) :
                  /\ decoded.v[rank(n)][1] = es[n][1]
                  /\ decoded.v[rank(n)][2]
                        = DecodedAlone(es[LastOccurrence(es, es[n][1])]).v[1][2]
            /\ encode_document(decoded.v) # wire

\* C26's case: the first of two keys was written once more after the
\* second; the Document holds it first, with the value written last.
C26_Witness ==
    /\ step = "decoded"
    /\ mark.op = "RepeatKey"
    /\ Len(mark.entries) = 3
    /\ mark.entries[3][1] = mark.entries[1][1]
    /\ mark.entries[3][2] # mark.entries[1][2]
    /\ mark.entries[2][1] # mark.entries[1][1]
    /\ decoded.st = "Ok"
    /\ decoded.v = << mark.entries[3], mark.entries[2] >>

\* C30: The top-level value must be a document. to_vec returns bytes exactly
\* when to_bson returns a Document, and the bytes are the encoding of that
\* Document; when to_bson returns any other Value, to_vec returns
\* InvalidMapKeyType of that Value and no bytes; when to_bson returns an
\* error, to_vec returns that error.
C30_TopLevelDocument ==
    sstep = "to_vec" =>
        LET bson == to_bson(sval, build)
        IN  /\ sres.st = "Ok" <=> (bson.st = "Ok" /\ bson.v.t = "Document")
            /\ sres.st = "Ok" => sres.v = encode_document(bson.v.d)
            /\ (bson.st = "Ok" /\ bson.v.t # "Document") =>
                  sres = Failed(InvalidMapKeyType(bson.v))
            /\ bson.st = "Err" => sres = bson

\* C30's case: to_vec of a struct that the serializer turned into a Value
\* that is no Document.
C30_Witness ==
    /\ sstep = "to_vec"
    /\ sval.k = "struct"
    /\ sres.st = "Err"
    /\ sres.err.kind = "InvalidMapKeyType"
    /\ sres.err.v.t \notin { "Document", "Array", "String", "Int32" }

-----------------------------------------------------------------------------
(* Claims about Document                                                    *)

\* The keys of d, in iteration order.
KeysOf(d) == [n \in 1..Len(d) |-> d[n][1]]

\* d without the entry at the 1-based position k, the others in their order.
Without(d, k) == Take(d, k - 1) \o Drop(d, k)

\* C25: Key uniqueness. After any sequence of insert, insert_full, remove,
\* swap_remove, swap_remove_index, pop, extend, clear, retain, sort_keys and
\* collecting from an iterator of pairs, no key occurs twice in the
\* Document, len() is the number of entries iterating yields, contains_key
\* holds of exactly the keys iterated, and get_index(i) at i < len() is the
\* i-th entry iterated.
C25_KeyUniqueness ==
    LET entries == doc_iter(dmap)
    IN  /\ \A i, j \in 1..Len(entries) : entries[i][1] = entries[j][1] => i = j
        /\ doc_len(dmap) = Len(entries)
        /\ \A key \in DocKeys :
              contains_key(dmap, key) <=> \E i \in 1..Len(entries) : entries[i][1] = key
        /\ \A i \in 0..(doc_len(dmap) - 1) : get_index(dmap, i) = Some(entries[i + 1])
        /\ get_index(dmap, doc_len(dmap)) = None

\* C25's case: an iterator that yields a key twice has been collected or has
\* extended a Document of three entries that holds the key.
C25_Witness ==
    /\ dcall.op \in { "extend", "collect" }
    /\ Len(dcall.args[1]) = 2
    /\ dcall.args[1][1][1] = dcall.args[1][2][1]
    /\ dcall.op = "extend" => Len(dprev) = 3 /\ contains_key(dprev, dcall.args[1][1][1])
    /\ dcall.op = "collect" => Len(dmap) = 1

\* C27: Document equality ignores order. Two Documents that hold the same
\* key -> value pairs compare equal with == whatever the order of their
\* entries, and when the orders differ encode_document writes different
\* bytes for them.
C27_EqualityIgnoresOrder ==
    ({ dprev[n] : n \in 1..Len(dprev) } = { dmap[n] : n \in 1..Len(dmap) }) =>
        /\ document_eq(dprev, dmap)
        /\ document_eq(dmap, dprev)
        /\ dprev # dmap => encode_document(dprev) # encode_document(dmap)

\* C27's case: a call has put the three entries of a Document in another
\* order.
C27_Witness ==
    /\ Len(dprev) = 3
    /\ { dprev[n] : n \in 1..Len(dprev) } = { dmap[n] : n \in 1..Len(dmap) }
    /\ dmap # dprev
    /\ document_eq(dprev, dmap)
    /\ dcall.op = "sort_keys"

\* The calls before the last one.
Earlier(calls) == Take(calls, Len(calls) - 1)

RECURSIVE Pending(_), PendingUnlessInserted(_)
\* The key pending after the calls: that of the last successful
\* serialize_key when no serialize_value was called after it.
Pending(calls) ==
    IF calls = <<>> THEN [st |-> "None"]
    ELSE LET last == calls[Len(calls)]
         IN  IF last.op = "serialize_value" THEN [st |-> "None"]
             ELSE IF last.ok THEN [st |-> "Some", v |-> to_bson(last.arg, "release").v.s]
             ELSE Pending(Earlier(calls))

\* The key pending after the calls when only a serialize_value that has
\* inserted its value uses the key up.
PendingUnlessInserted(calls) ==
    IF calls = <<>> THEN [st |-> "None"]
    ELSE LET last == calls[Len(calls)]
         IN  IF last.op = "serialize_value" /\ last.ok THEN [st |-> "None"]
             ELSE IF last.op = "serialize_key" /\ last.ok
             THEN [st |-> "Some", v |-> to_bson(last.arg, "release").v.s]
             ELSE PendingUnlessInserted(Earlier(calls))

\* The key a pending key stands for: the empty string when there is none.
KeyOr(pending) == IF pending.st = "Some" THEN pending.v ELSE <<>>

\* C29 as stated: Map serializer key/value protocol. Each serialize_value
\* inserts its value under the key of the most recent successful
\* serialize_key that no inserted value has used, under "" when there is
\* none; a failed call leaves the entries unchanged.
C29_MapProtocolAsStated ==
    dcall # <<>> =>
        LET last == dcall[Len(dcall)]
        IN  /\ (last.op = "serialize_value" /\ last.ok) =>
                  dmap = insert(dprev, KeyOr(PendingUnlessInserted(Earlier(dcall))),
                                to_bson(sval, build).v)
            /\ ~last.ok => dmap = dprev

\* C29: Map serializer key/value protocol. A serialize_value call uses up
\* the pending key whether or not its value converts. Each successful
\* serialize_value inserts its value under the key of the most recent
\* successful serialize_key after which no serialize_value was called, under
\* "" when there is none, and leaves no key pending; a serialize_key before a
\* value overwrites the pending key; a failed serialize_key leaves the
\* pending key and the entries unchanged, a failed serialize_value the
\* entries.
C29_MapProtocol ==
    /\ dret = Pending(dcall)
    /\ dcall # <<>> =>
          LET last == dcall[Len(dcall)]
          IN  /\ (last.op = "serialize_value" /\ last.ok) =>
                    dmap = insert(dprev, KeyOr(Pending(Earlier(dcall))), to_bson(sval, build).v)
              /\ (last.op = "serialize_key" \/ ~last.ok) => dmap = dprev
              /\ last.ok <=> sres = Returned(Unit)

\* C29's case: a key, a second key over it, a value under the second, and a
\* value under the empty key.
C29_Witness ==
    /\ Len(dcall) = 4
    /\ dcall[1].op = "serialize_key" /\ dcall[1].ok
    /\ dcall[2].op = "serialize_key" /\ dcall[2].ok /\ dcall[2].arg # dcall[1].arg
    /\ dcall[3].op = "serialize_value" /\ dcall[3].ok
    /\ dcall[4].op = "serialize_value" /\ dcall[4].ok
    /\ Len(dmap) = 2
    /\ dmap[1][1] = to_bson(dcall[2].arg, build).v.s
    /\ dmap[2][1] = <<>>

\* C11: Idempotent insertion. After any sequence of operations, inserting a
\* present key puts the new value where the key is, returns the previous
\* value and changes neither the length nor any other entry; inserting an
\* absent key appends the entry and returns None. insert_full returns the
\* entry's index as well.
C11_IdempotentInsertion ==
    dcall.op \in { "insert", "insert_full" } =>
        LET key == dcall.args[1]
            v == dcall.args[2]
            k == IndexOf(dprev, key)
            old == IF dcall.op = "insert" THEN dret ELSE dret[2]
        IN  /\ IF k > 0
               THEN /\ old = Some(dprev[k][2])
                    /\ Len(dmap) = Len(dprev)
                    /\ KeysOf(dmap) = KeysOf(dprev)
                    /\ dmap[k] = << key, v >>
                    /\ \A n \in 1..Len(dprev) : n # k => dmap[n] = dprev[n]
               ELSE /\ old = None
                    /\ dmap = Append(dprev, << key, v >>)
            /\ dcall.op = "insert_full" => dmap[dret[1] + 1] = << key, v >>

\* C11's case: the first of three keys inserted again, with another value.
C11_Witness ==
    /\ dcall.op = "insert"
    /\ Len(dprev) = 3
    /\ dcall.args[1] = dprev[1][1]
    /\ dcall.args[2] # dprev[1][2]
    /\ dmap[1] = << dcall.args[1], dcall.args[2] >>

\* C12: Order-preserving removal. remove(key) of a present key returns its
\* value and leaves the other entries in their previous order, the later
\* ones shifted down by one; of an absent key it returns None and changes
\* nothing.
C12_OrderPreservingRemoval ==
    dcall.op = "remove" =>
        LET k == IndexOf(dprev, dcall.args[1])
        IN  IF k > 0
            THEN dret = Some(dprev[k][2]) /\ dmap = Without(dprev, k)
            ELSE dret = None /\ dmap = dprev

\* What the last operation removed: the 1-based position it names, 0 when it
\* names no entry.
RemovedAt ==
    IF dcall.op = "swap_remove_index"
    THEN IF dcall.args[1] < Len(dprev) THEN dcall.args[1] + 1 ELSE 0
    ELSE IndexOf(dprev, dcall.args[1])

\* C13: Swap removal. swap_remove, swap_remove_full and swap_remove_index of
\* the entry at position p put the last entry at p, leave every other entry
\* where it was, shorten the Document by one and return the value (and the
\* index and key) removed; naming no entry they return None and change
\* nothing.
C13_SwapRemoval ==
    dcall.op \in { "swap_remove", "swap_remove_full", "swap_remove_index" } =>
        LET p == RemovedAt
            last == Len(dprev)
        IN  IF p = 0 THEN dret = None /\ dmap = dprev
            ELSE /\ Len(dmap) = last - 1
                 /\ p < last => dmap[p] = dprev[last]
                 /\ \A n \in 1..(last - 1) : n # p => dmap[n] = dprev[n]
                 /\ dret = CASE dcall.op = "swap_remove" -> Some(dprev[p][2])
                             [] dcall.op = "swap_remove_full" ->
                                    Some(<< p - 1, dprev[p][1], dprev[p][2] >>)
                             [] dcall.op = "swap_remove_index" -> Some(dprev[p])

\* C13's case: the first of four entries removed, the fourth now the first.
C13_Witness ==
    /\ dcall.op = "swap_remove_full"
    /\ Len(dprev) = 4
    /\ dret = Some(<< 0, dprev[1][1], dprev[1][2] >>)
    /\ dmap = << dprev[4], dprev[2], dprev[3] >>

\* The variant a getter is for.
VariantOf(getter) ==
    CASE getter = "get_f64" -> "Double"
      [] getter = "get_i32" -> "Int32"
      [] getter = "get_i64" -> "Int64"
      [] getter = "get_str" -> "String"
      [] getter = "get_array" -> "Array"
      [] getter = "get_document" -> "Document"
      [] getter = "get_bool" -> "Boolean"
      [] getter = "get_binary" -> "Binary"
      [] getter = "get_object_id" -> "ObjectId"
      [] getter = "get_time_stamp" -> "TimeStamp"
      [] getter = "get_utc_datetime" -> "UTCDatetime"

\* What a value holds.
PayloadOf(v) ==
    CASE v.t = "Double" -> v.f
      [] v.t = "Int32" -> v.i32
      [] v.t = "Int64" -> v.i64
      [] v.t = "String" -> v.s
      [] v.t = "Array" -> v.a
      [] v.t = "Document" -> v.d
      [] v.t = "Boolean" -> v.b
      [] v.t = "Binary" -> v.data
      [] v.t = "ObjectId" -> v.oid
      [] v.t = "TimeStamp" -> v.ts
      [] v.t = "UTCDatetime" -> [secs |-> v.secs, nanos |-> v.nanos]

\* C14: Typed accessors. Each typed getter returns Err(NotPresent) exactly
\* when the key is absent, Ok(payload) exactly when the key holds the
\* getter's variant (for get_binary: Binary of subtype Generic, and then the
\* stored bytes), and Err(UnexpectedType) in every other case.
C14_TypedAccessors ==
    dcall.op \in Getters =>
        LET e == get(dmap, dcall.args[1])
            matching ==
                /\ e.st = "Some"
                /\ e.v.t = VariantOf(dcall.op)
                /\ dcall.op = "get_binary" => e.v.subtype = Generic
        IN  /\ dret = NotPresent <=> e = None
            /\ dret.st = "Ok" <=> matching
            /\ matching => dret.v = PayloadOf(e.v)
            /\ (e # None /\ ~matching) => dret = UnexpectedType

\* C14's case: get_binary on a Binary of another subtype is rejected.
C14_Witness ==
    /\ dcall.op = "get_binary"
    /\ get(dmap, dcall.args[1]) = Some(Binary(UserDefined(128), << 1, 2 >>))
    /\ dret = UnexpectedType

-----------------------------------------------------------------------------
(* Claims about the JSON conversions                                        *)

\* C15: JSON round-trip. For every Value v, exotic variants and the
\* documents and arrays that hold them included, Value::from_json(v.to_json())
\* returns a Value equal to v.
C15_JsonRoundTrip ==
    bstep = "backjson" => (back.st = "Ok" /\ ValueEq(back.v, val))

-----------------------------------------------------------------------------
(* Claims about maps, structs and enum variants in the serializer           *)

\* What x serializes in turn: the payload, the elements, the keys and values
\* of a map one after the other, the values of the fields.
Children(x) ==
    CASE x.k \in { "some", "newtype_struct", "newtype_variant" } -> << x.inner >>
      [] x.k \in { "seq", "tuple", "tuple_struct", "tuple_variant" } -> x.items
      [] x.k = "map" ->
            [n \in 1..(2 * Len(x.pairs)) |-> x.pairs[(n + 1) \div 2][2 - (n % 2)]]
      [] x.k \in { "struct", "struct_variant" } ->
            [n \in 1..Len(x.fields) |-> x.fields[n][2]]
      [] OTHER -> <<>>

\* Whether the n-th thing x serializes is a key of a map.
IsKey(x, n) == x.k = "map" /\ n % 2 = 1

\* Whether everything x serializes before the n-th thing serializes, the
\* keys of a map to Strings.
CleanBefore(x, n, profile) ==
    \A m \in 1..(n - 1) :
        LET r == to_bson(Children(x)[m], profile)
        IN  r.st = "Ok" /\ (IsKey(x, m) => r.v.t = "String")

\* C17: Non-string map key. A key of a map that serializes to a Value that
\* is no String makes to_bson of the map fail with InvalidMapKeyType of
\* that Value, and with it to_bson of whatever holds the map.
C17_NonStringMapKey ==
    sstep = "done" =>
        \A n \in 1..Len(Children(sval)) :
            LET r == to_bson(Children(sval)[n], build)
            IN  CleanBefore(sval, n, build) =>
                    /\ (IsKey(sval, n) /\ r.st = "Ok" /\ r.v.t # "String") =>
                            sres = Failed(InvalidMapKeyType(r.v))
                    /\ (r.st = "Err" /\ r.err.kind = "InvalidMapKeyType") => sres = r

\* C17's case: a map with the key 7 inside a sequence.
C17_Witness ==
    /\ sstep = "done"
    /\ sval = TSeq(<< TI32(7), TMap(<< << TI32(7), TUnit >> >>) >>)
    /\ sres = Failed(InvalidMapKeyType(Int32(7)))

\* The keys and values of a map or struct x as they serialize, every entry
\* inserted in its turn.
EntriesOf(x, profile) ==
    LET KeyOf(n) == IF x.k = "map" THEN to_bson(x.pairs[n][1], profile).v.s ELSE x.fields[n][1]
        ValueOf(n) == IF x.k = "map" THEN to_bson(x.pairs[n][2], profile).v
                      ELSE to_bson(x.fields[n][2], profile).v
        count == IF x.k = "map" THEN Len(x.pairs) ELSE Len(x.fields)
        Fill[n \in 0..count] ==
            IF n = 0 THEN <<>> ELSE insert(Fill[n - 1], KeyOf(n), ValueOf(n))
    IN  Fill[count]

\* C18: Maps become Document. A map or a struct whose keys all serialize to
\* Strings (and whose values all serialize) serializes to the Document of
\* exactly its entries in their order, whatever the keys are, those of the
\* extended-document shapes included.
C18_MapsBecomeDocument ==
    (/\ sstep = "done"
     /\ sval.k \in { "map", "struct" }
     /\ CleanBefore(sval, Len(Children(sval)) + 1, build)) =>
        sres = Returned(Document(EntriesOf(sval, build)))

\* C19: Enum variants. A unit variant serializes to the String of its name;
\* a newtype variant to the one-entry Document name -> the payload
\* serialized; a tuple variant to name -> the Array of its fields serialized
\* in order; a struct variant to name -> the Document of its fields
\* serialized in order.
C19_EnumVariants ==
    (sstep = "done" /\ CleanBefore(sval, Len(Children(sval)) + 1, build)) =>
        LET Of(n) == to_bson(Children(sval)[n], build).v
            OneEntry(v) == Returned(Document(<< << sval.variant, v >> >>))
        IN  /\ sval.k = "unit_variant" => sres = Returned(String(sval.variant))
            /\ sval.k = "newtype_variant" => sres = OneEntry(Of(1))
            /\ sval.k = "tuple_variant" =>
                    sres = OneEntry(Array([n \in 1..Len(sval.items) |-> Of(n)]))
            /\ sval.k = "struct_variant" =>
                    sres = OneEntry(Document(EntriesOf(sval, build)))

-----------------------------------------------------------------------------
(* Claims about the shape table                                             *)

\* Whether the Document d holds a value of the variant t under key.
Holds(d, key, t) == get(d, key).st = "Some" /\ get(d, key).v.t = t

\* The shapes of the table, in the order they are listed for each size, as
\* the variant each stands for and whether d has the shape.
ShapeTable(d) ==
    << << "RegExp", Len(d) = 2 /\ Holds(d, K_regex, "String") /\ Holds(d, K_options, "String") >>,
       << "JavaScriptCodeWithScope",
          Len(d) = 2 /\ Holds(d, K_code, "String") /\ Holds(d, K_scope, "Document") >>,
       << "TimeStamp", Len(d) = 2 /\ Holds(d, K_t, "Int32") /\ Holds(d, K_i, "Int32") >>,
       << "TimeStamp", Len(d) = 2 /\ Holds(d, K_t, "Int64") /\ Holds(d, K_i, "Int64") >>,
       << "Binary", Len(d) = 2 /\ Holds(d, K_binary, "String") /\ Holds(d, K_type, "Int64") >>,
       << "JavaScriptCode", Len(d) = 1 /\ Holds(d, K_code, "String") >>,
       << "ObjectId", Len(d) = 1 /\ Holds(d, K_oid, "String") >>,
       << "UTCDatetime",
          /\ Len(d) = 1
          /\ Holds(d, K_date, "Document")
          /\ Holds(get(d, K_date).v.d, K_numberLong, "Int64") >>,
       << "Symbol", Len(d) = 1 /\ Holds(d, K_symbol, "String") >> >>

\* The shapes d has, by their place in the table.
ShapesOf(d) == { n \in 1..Len(ShapeTable(d)) : ShapeTable(d)[n][2] }

\* C20: No shape match leaves the document unchanged. A document that has
\* none of the shapes (of size 0 or of 3 and more, with other keys, or with
\* the keys of a shape and a value of another variant) comes back as
\* Document of the same entries in the same order; a document that has
\* shapes comes back, when a value comes back, as the variant of the first
\* of them in the table.
C20_NoShapeMatch ==
    bstep = "matched" =>
        IF ShapesOf(val.d) = {} THEN back = Returned(Document(val.d))
        ELSE back.st = "Ok" =>
                back.v.t = ShapeTable(val.d)[Least(ShapesOf(val.d))][1]

\* C20's case: "$regex" with "$options" that is no String comes back as the
\* Document it is.
C20_Witness ==
    /\ bstep = "matched"
    /\ Len(val.d) = 2
    /\ Holds(val.d, K_regex, "String")
    /\ Holds(val.d, K_options, "Int32")
    /\ back = Returned(val)

=============================================================================
